---- MODULE Spec2Model ----
(***************************************************************************)
(* Model of the AutoBetTracker decision loop: the grade scorer             *)
(* (decision_loop.grade_pick), the fractional-Kelly stake sizer            *)
(* (kelly_sizing) and the part of run_decision_loop that sizes and logs    *)
(* the graded picks.                                                       *)
(*                                                                         *)
(* Python floats are IEEE-754 binary64.  The stake computation rounds to   *)
(* two decimals (round(x, 2)), and whether a value such as 0.525 rounds    *)
(* up or down is decided by the representation error of the doubles, so    *)
(* the arithmetic is modelled bit-exactly: a double is a sign, a 53-bit    *)
(* significand and an exponent, and every operation is the exact result    *)
(* rounded to nearest, ties to even.  TLC's integers are 32 bits wide, so  *)
(* significands are kept as little-endian sequences of 15-bit limbs.       *)
(***************************************************************************)
EXTENDS Integers, Sequences, FiniteSets, TLC

----------------------------------------------------------------------------
(* Natural numbers of arbitrary size: little-endian limbs, no high zeros.  *)

Base == 2^15

\* "v = e; F(v)": e is evaluated once, to a value, before F uses it.
Bind(e, F(_)) == CHOOSE r \in {F(v) : v \in {e}} : TRUE

RECURSIVE Pow2(_)
Pow2(n) == IF n = 0 THEN 1 ELSE 2 * Pow2(n - 1)

RECURSIVE Trim(_)
Trim(a) ==
  IF a = <<>> THEN a
  ELSE IF a[Len(a)] = 0 THEN Trim(SubSeq(a, 1, Len(a) - 1)) ELSE a

Limb(a, i) == IF i <= Len(a) THEN a[i] ELSE 0

NatOfInt(n) ==
  IF n = 0 THEN <<>>
  ELSE IF n < Base THEN <<n>>
  ELSE IF n < Base * Base THEN <<n % Base, n \div Base>>
  ELSE <<n % Base, (n \div Base) % Base, n \div (Base * Base)>>

\* Only for values below 2^30.
IntOfNat(a) == Limb(a, 1) + Base * Limb(a, 2)

RECURSIVE AddFrom(_, _, _, _)
AddFrom(a, b, i, c) ==
  IF i > Len(a) /\ i > Len(b) THEN (IF c = 0 THEN <<>> ELSE <<c>>)
  ELSE LET x == Limb(a, i) + Limb(b, i) + c
       IN  <<x % Base>> \o AddFrom(a, b, i + 1, x \div Base)

BAdd(a, b) == AddFrom(a, b, 1, 0)

RECURSIVE SubFrom(_, _, _, _)
SubFrom(a, b, i, c) ==
  IF i > Len(a) THEN <<>>
  ELSE LET x == Limb(a, i) - Limb(b, i) - c
       IN  IF x < 0 THEN <<x + Base>> \o SubFrom(a, b, i + 1, 1)
           ELSE <<x>> \o SubFrom(a, b, i + 1, 0)

\* a - b for a >= b
BSub(a, b) == Trim(SubFrom(a, b, 1, 0))

RECURSIVE CmpFrom(_, _, _)
CmpFrom(a, b, i) ==
  IF i = 0 THEN 0
  ELSE IF a[i] < b[i] THEN -1
  ELSE IF a[i] > b[i] THEN 1
  ELSE CmpFrom(a, b, i - 1)

\* -1, 0 or 1 as a < b, a = b, a > b
BCmp(a, b) ==
  IF Len(a) < Len(b) THEN -1
  ELSE IF Len(a) > Len(b) THEN 1
  ELSE CmpFrom(a, b, Len(a))

RECURSIVE MulSmallFrom(_, _, _, _)
MulSmallFrom(a, k, i, c) ==
  IF i > Len(a) THEN (IF c = 0 THEN <<>> ELSE <<c>>)
  ELSE LET x == a[i] * k + c
       IN  <<x % Base>> \o MulSmallFrom(a, k, i + 1, x \div Base)

\* a * k for 0 <= k < Base
BMulSmall(a, k) == IF k = 0 THEN <<>> ELSE MulSmallFrom(a, k, 1, 0)

Zeros(n) == [i \in 1..n |-> 0]

ShlLimbs(a, n) == IF a = <<>> THEN a ELSE Zeros(n) \o a

\* a * 2^n
BShl(a, n) == ShlLimbs(BMulSmall(a, Pow2(n % 15)), n \div 15)

RECURSIVE MulFrom(_, _, _)
MulFrom(a, b, i) ==
  IF i > Len(b) THEN <<>>
  ELSE BAdd(ShlLimbs(BMulSmall(a, b[i]), i - 1), MulFrom(a, b, i + 1))

BMul(a, b) == MulFrom(a, b, 1)

RECURSIVE BitLenSmall(_)
BitLenSmall(x) == IF x = 0 THEN 0 ELSE 1 + BitLenSmall(x \div 2)

BitLen(a) == IF a = <<>> THEN 0 ELSE 15 * (Len(a) - 1) + BitLenSmall(a[Len(a)])

\* bit i (from 0) of a
Bit(a, i) == (Limb(a, (i \div 15) + 1) \div Pow2(i % 15)) % 2

\* the low n bits of a are not all zero
LowBitsSet(a, n) ==
  \/ \E i \in 1..(n \div 15) : Limb(a, i) # 0
  \/ Limb(a, (n \div 15) + 1) % Pow2(n % 15) # 0

RECURSIVE DivSmallFrom(_, _, _, _)
DivSmallFrom(a, k, i, r) ==
  IF i = 0 THEN <<>>
  ELSE LET x == r * Base + a[i]
       IN  DivSmallFrom(a, k, i - 1, x % k) \o <<x \div k>>

\* floor(a / 2^n)
BShr(a, n) ==
  LET dropped == n \div 15
      rest == IF dropped >= Len(a) THEN <<>> ELSE SubSeq(a, dropped + 1, Len(a))
  IN  Trim(DivSmallFrom(rest, Pow2(n % 15), Len(rest), 0))

\* The largest d in lo..hi with b * d <= r, given b * lo <= r.
RECURSIVE DigitFrom(_, _, _, _)
DigitFrom(r, b, lo, hi) ==
  IF lo = hi THEN lo
  ELSE LET mid == (lo + hi + 1) \div 2
       IN  IF BCmp(BMulSmall(b, mid), r) <= 0 THEN DigitFrom(r, b, mid, hi)
           ELSE DigitFrom(r, b, lo, mid - 1)

\* floor(r / b) for r < b * Base: the leading 15 bits of b and the bits of r above
\* them bracket the digit, and the search settles it.
DigitOf(r, b) ==
  LET sh == IF BitLen(b) > 15 THEN BitLen(b) - 15 ELSE 0
      rh == IntOfNat(BShr(r, sh))
      bh == IntOfNat(BShr(b, sh))
      lo == rh \div (bh + 1)
      hi == (rh + 1) \div bh
  IN  DigitFrom(r, b, lo, IF hi > Base - 1 THEN Base - 1 ELSE hi)

\* Long division from the high limb down: q and r are the quotient and remainder
\* of floor(a / Base^i) by b.
RECURSIVE DivModFrom(_, _, _, _, _)
DivModFrom(a, b, i, q, r) ==
  IF i = 0 THEN [q |-> q, r |-> r]
  ELSE LET r2 == Trim(<<a[i]>> \o r)
           d == DigitOf(r2, b)
       IN  DivModFrom(a, b, i - 1, Trim(<<d>> \o q), BSub(r2, BMulSmall(b, d)))

\* [q, r]: a = q * b + r, 0 <= r < b, for b > 0
BDivMod(a, b) == DivModFrom(a, b, Len(a), <<>>, <<>>)

----------------------------------------------------------------------------
(* IEEE-754 binary64 values: [s, m, e] is s * m * 2^e with s in {-1, 0, 1}, *)
(* m a 53-bit significand (2^52 <= m < 2^53) and zero as [0, <<>>, 0].      *)
(* Subnormals, infinities and NaN are outside the ranges the model uses.    *)

FZero == [s |-> 0, m |-> <<>>, e |-> 0]

\* s * (m + f) * 2^e rounded to nearest-even, where 0 <= f < 1 is nonzero iff sticky
FRound(s, m, e, sticky) ==
  LET len == BitLen(m) IN
  IF m = <<>> THEN FZero
  ELSE IF len <= 53 THEN [s |-> s, m |-> BShl(m, 53 - len), e |-> e - (53 - len)]
  ELSE LET k == len - 53
           kept == BShr(m, k)
           half == Bit(m, k - 1) = 1
           below == sticky \/ LowBitsSet(m, k - 1)
           up == half /\ (below \/ Bit(kept, 0) = 1)
           r == IF up THEN BAdd(kept, <<1>>) ELSE kept
       IN  IF BitLen(r) = 54 THEN [s |-> s, m |-> BShr(r, 1), e |-> e + k + 1]
           ELSE [s |-> s, m |-> r, e |-> e + k]

FromInt(n) ==
  IF n = 0 THEN FZero
  ELSE FRound(IF n < 0 THEN -1 ELSE 1, NatOfInt(IF n < 0 THEN -n ELSE n), 0, FALSE)

FNeg(x) == [x EXCEPT !.s = -x.s]

\* -1, 0, 1 as |x| < |y|, |x| = |y|, |x| > |y|
FCmpAbs(x, y) ==
  IF x.s = 0 THEN (IF y.s = 0 THEN 0 ELSE -1)
  ELSE IF y.s = 0 THEN 1
  ELSE IF x.e < y.e THEN -1
  ELSE IF x.e > y.e THEN 1
  ELSE BCmp(x.m, y.m)

\* -1, 0, 1 as x < y, x = y, x > y
FCmp(x, y) ==
  IF x.s # y.s THEN (IF x.s < y.s THEN -1 ELSE 1)
  ELSE x.s * FCmpAbs(x, y)

FLt(x, y) == FCmp(x, y) < 0
FLe(x, y) == FCmp(x, y) <= 0
FGt(x, y) == FCmp(x, y) > 0
FGe(x, y) == FCmp(x, y) >= 0

\* Python's min(a, b) and max(a, b): the first argument unless the second is
\* strictly smaller (larger).
FMin(x, y) == IF FLt(y, x) THEN y ELSE x
FMax(x, y) == IF FGt(y, x) THEN y ELSE x

FAdd(x, y) ==
  IF x.s = 0 THEN y
  ELSE IF y.s = 0 THEN x
  ELSE LET e == IF x.e < y.e THEN x.e ELSE y.e
           mx == BShl(x.m, x.e - e)
           my == BShl(y.m, y.e - e)
           c == BCmp(mx, my)
       IN  IF x.s = y.s THEN FRound(x.s, BAdd(mx, my), e, FALSE)
           ELSE IF c = 0 THEN FZero
           ELSE IF c > 0 THEN FRound(x.s, BSub(mx, my), e, FALSE)
           ELSE FRound(y.s, BSub(my, mx), e, FALSE)

FSub(x, y) == FAdd(x, FNeg(y))

FMul(x, y) ==
  IF x.s = 0 \/ y.s = 0 THEN FZero
  ELSE FRound(x.s * y.s, BMul(x.m, y.m), x.e + y.e, FALSE)

\* x / y for y # 0: 56 or 57 quotient bits and a sticky remainder
FDiv(x, y) ==
  IF x.s = 0 THEN FZero
  ELSE LET d == BDivMod(BShl(x.m, 56), y.m)
       IN  FRound(x.s * y.s, d.q, x.e - y.e - 56, d.r # <<>>)

\* The double nearest to a / b: an int / int true division, and the value of a
\* decimal literal or string such as 0.05 (5 / 100) or "1.91" (191 / 100).
FromRatio(a, b) == Bind(FromInt(a), LAMBDA x : Bind(FromInt(b), LAMBDA y : FDiv(x, y)))

\* Python's round(x, 2), as the integer n of hundredths: the integer nearest
\* to 100 * x, a tie going to the even one.  The float returned is n / 100.
Round2Hundredths(x) ==
  IF x.s = 0 THEN 0
  ELSE LET c == BMulSmall(x.m, 100)
       IN  IF x.e >= 0 THEN x.s * IntOfNat(BShl(c, x.e))
           ELSE LET k == -x.e
                    n == BShr(c, k)
                    half == Bit(c, k - 1) = 1
                    below == LowBitsSet(c, k - 1)
                    up == half /\ (below \/ Bit(n, 0) = 1)
                IN  x.s * (IntOfNat(n) + (IF up THEN 1 ELSE 0))

Round2(x) == Bind(Round2Hundredths(x), LAMBDA n : FromRatio(n, 100))

FOne == FromInt(1)

----------------------------------------------------------------------------
(* Python values as the code meets them: CSV fields are strings (or None   *)
(* for a missing column), JSON fields are numbers, strings, null or        *)
(* containers, and a dict key may be absent.                               *)
(*   t = "absent"  the key is not in the dict                              *)
(*   t = "none"    None                                                    *)
(*   t = "num"     an int or float of value n / d                          *)
(*   t = "numstr"  a string that float() parses, of value n / d; int()     *)
(*                 parses it too when d = 1                                *)
(*   t = "str"     any other string, v its text                            *)
(*   t = "list"    a non-empty list                                        *)

PyAbsent == [t |-> "absent", n |-> 0, d |-> 1, v |-> ""]
PyNone == [t |-> "none", n |-> 0, d |-> 1, v |-> ""]
PyNum(n, d) == [t |-> "num", n |-> n, d |-> d, v |-> ""]
PyNumStr(n, d) == [t |-> "numstr", n |-> n, d |-> d, v |-> ""]
PyStr(v) == [t |-> "str", n |-> 0, d |-> 1, v |-> v]
PyList == [t |-> "list", n |-> 0, d |-> 1, v |-> ""]

\* dict.get(key): None for an absent key
Get(x) == IF x.t = "absent" THEN PyNone ELSE x

\* bool(x)
Truthy(x) ==
  CASE x.t = "num" -> x.n # 0
    [] x.t = "numstr" -> TRUE
    [] x.t = "str" -> x.v # ""
    [] x.t = "list" -> TRUE
    [] OTHER -> FALSE

\* float(x): the exception it raises, "" when it returns
FloatExc(x) ==
  CASE x.t \in {"num", "numstr"} -> ""
    [] x.t = "str" -> "ValueError"
    [] OTHER -> "TypeError"

\* float(x) when it returns
FloatVal(x) == FromRatio(x.n, x.d)

----------------------------------------------------------------------------
(* Text whose characters the code inspects (the sharp-signal tags) is a    *)
(* tuple of one-character strings.                                         *)

LowerChar(c) ==
  CASE c = "C" -> "c" [] c = "O" -> "o" [] c = "N" -> "n" [] c = "F" -> "f"
    [] c = "L" -> "l" [] c = "I" -> "i" [] c = "T" -> "t" [] c = "V" -> "v"
    [] c = "B" -> "b" [] c = "P" -> "p" [] c = "R" -> "r" [] c = "W" -> "w"
    [] OTHER -> c

\* str.lower()
Lower(s) == [i \in 1..Len(s) |-> LowerChar(s[i])]

\* needle in hay
Contains(hay, needle) ==
  \E i \in 0..(Len(hay) - Len(needle)) :
    \A j \in 1..Len(needle) : hay[i + j] = needle[j]

RECURSIVE JoinItems(_, _)
JoinItems(items, i) ==
  IF i > Len(items) THEN <<>>
  ELSE (IF i > 1 THEN <<",", " ">> ELSE <<>>) \o <<"'">> \o items[i] \o <<"'">>
       \o JoinItems(items, i + 1)

\* str(list of str): the items' reprs between brackets
StrOfList(items) == <<"[">> \o JoinItems(items, 1) \o <<"]">>

----------------------------------------------------------------------------
(* decision_loop.grade_pick                                                *)

\* A reasoning string: its leading mark and its text.  "pass" is the check
\* mark, "fail" the cross, "unknown" the question mark, "neutral" the tilde.
Reason(mark, text) == [mark |-> mark, text |-> text]

\* Check 1 with the threshold at 1% instead of 3%
EdgeCheckAtOne(edge) ==
  IF edge.t = "absent" \/ FloatExc(edge) # ""
  THEN [inc |-> 0, reason |-> Reason("unknown", "Model edge unknown")]
  ELSE IF FGe(FloatVal(edge), FromInt(1))
       THEN [inc |-> 1, reason |-> Reason("pass", "Model edge significant")]
       ELSE [inc |-> 0, reason |-> Reason("fail", "Model edge weak (< 3%)")]

\* Check 1 (lines 207-216): [inc, reason]
EdgeCheck(edge) ==
  IF edge.t = "absent" \/ FloatExc(edge) # ""
  THEN [inc |-> 0, reason |-> Reason("unknown", "Model edge unknown")]
  ELSE IF FGe(FloatVal(edge), FromInt(3))
       THEN [inc |-> 1, reason |-> Reason("pass", "Model edge significant")]
       ELSE [inc |-> 0, reason |-> Reason("fail", "Model edge weak (< 3%)")]

\* A line_movement value: a dict with its two spread fields, None, or no such key
LineMovement(cur, open) == [t |-> "dict", spread_current |-> cur, spread_open |-> open]
LineMovementNone == [t |-> "none", spread_current |-> PyAbsent, spread_open |-> PyAbsent]
LineMovementAbsent == [t |-> "absent", spread_current |-> PyAbsent, spread_open |-> PyAbsent]

\* signals.get('line_movement', {}): the empty dict for an absent key
EmptyLineMovement == LineMovement(PyAbsent, PyAbsent)

LineMovementOf(signals) ==
  IF signals.line_movement.t = "absent" THEN EmptyLineMovement
  ELSE signals.line_movement

\* Check 2 (lines 218-232): [exc, inc, reason]; x.get of a non-dict raises
LineMovementCheck(signals) ==
  LET line_movement == LineMovementOf(signals) IN
  IF line_movement.t # "dict"
  THEN [exc |-> "AttributeError", inc |-> 0, reason |-> Reason("", "")]
  ELSE IF Truthy(Get(line_movement.spread_current)) /\ Truthy(Get(line_movement.spread_open))
       THEN IF FloatExc(line_movement.spread_current) = ""
               /\ FloatExc(line_movement.spread_open) = ""
            THEN [exc |-> "", inc |-> 1, reason |-> Reason("pass", "Line movement tracked")]
            ELSE [exc |-> "", inc |-> 0, reason |-> Reason("unknown", "Line movement unclear")]
       ELSE [exc |-> "", inc |-> 0,
             reason |-> Reason("unknown", "Line movement data unavailable")]

\* Check 3 with the public-heavy branch also adding to the score
SharpMoneyCheckCountsPublic(signals) ==
  LET divergence == Get(signals.bet_vs_money_divergence) IN
  IF divergence = PyStr("Sharp Action")
  THEN [inc |-> 1, reason |-> Reason("pass", "Sharp money aligned")]
  ELSE IF divergence = PyStr("Public Heavy")
       THEN [inc |-> 1, reason |-> Reason("fail", "Public heavy (consider fade)")]
       ELSE [inc |-> 0, reason |-> Reason("neutral", "No sharp signal")]

\* Check 3 (lines 234-242)
SharpMoneyCheck(signals) ==
  LET divergence == Get(signals.bet_vs_money_divergence) IN
  IF divergence = PyStr("Sharp Action")
  THEN [inc |-> 1, reason |-> Reason("pass", "Sharp money aligned")]
  ELSE IF divergence = PyStr("Public Heavy")
       THEN [inc |-> 0, reason |-> Reason("fail", "Public heavy (consider fade)")]
       ELSE [inc |-> 0, reason |-> Reason("neutral", "No sharp signal")]

\* A sharp_signals value: a list of tags, None, or no such key
SharpSignals(items) == [t |-> "list", items |-> items]
SharpSignalsNone == [t |-> "none", items |-> <<>>]
SharpSignalsAbsent == [t |-> "absent", items |-> <<>>]

\* A signals value: a dict, None, or no such key
Signals(lm, div, sharp) ==
  [t |-> "dict", line_movement |-> lm, bet_vs_money_divergence |-> div,
   sharp_signals |-> sharp]
SignalsNone ==
  [t |-> "none", line_movement |-> LineMovementAbsent,
   bet_vs_money_divergence |-> PyAbsent, sharp_signals |-> SharpSignalsAbsent]
SignalsAbsent ==
  [t |-> "absent", line_movement |-> LineMovementAbsent,
   bet_vs_money_divergence |-> PyAbsent, sharp_signals |-> SharpSignalsAbsent]

\* signals.get('sharp_signals', []): the empty list for an absent key
SharpSignalsOf(signals) ==
  IF signals.sharp_signals.t = "absent" THEN SharpSignals(<<>>)
  ELSE signals.sharp_signals

\* Check 4 (lines 244-250)
ConflictCheck(signals) ==
  LET sharp_signals == SharpSignalsOf(signals)
      falsy == sharp_signals.t = "none" \/ sharp_signals.items = <<>>
  IN  IF falsy \/ ~Contains(Lower(StrOfList(sharp_signals.items)),
                            <<"c", "o", "n", "f", "l", "i", "c", "t">>)
      THEN [inc |-> 1, reason |-> Reason("pass", "No conflicting signals")]
      ELSE [inc |-> 0, reason |-> Reason("fail", "Conflicting signals present")]

\* Lines 252-258 with each threshold one lower
GradeOfScoreLowered(score) == IF score >= 3 THEN "A" ELSE IF score >= 2 THEN "B" ELSE "C"

\* Lines 252-258
GradeOfScore(score) == IF score >= 4 THEN "A" ELSE IF score >= 3 THEN "B" ELSE "C"

\* grade_pick(analysis): [exc, analysis].  exc = "" is a return, with grade,
\* grade_score and grade_reasoning set in the analysis; otherwise the named
\* exception leaves grade_pick and the analysis is as it was.  analysis.signals
\* has t "dict", "none" or "absent" (analysis.get('signals', {})).
grade_pick(analysis) ==
  LET c1 == EdgeCheck(analysis.edge)
      signals == IF analysis.signals.t = "absent"
                 THEN Signals(LineMovementAbsent, PyAbsent, SharpSignalsAbsent)
                 ELSE analysis.signals
  IN  IF signals.t # "dict" THEN [exc |-> "AttributeError", analysis |-> analysis]
      ELSE LET c2 == LineMovementCheck(signals)
               c3 == SharpMoneyCheck(signals)
               c4 == ConflictCheck(signals)
               score == c1.inc + c2.inc + c3.inc + c4.inc
           IN  IF c2.exc # "" THEN [exc |-> c2.exc, analysis |-> analysis]
               ELSE [exc |-> "",
                     analysis |-> [analysis EXCEPT
                        !.grade = GradeOfScore(score),
                        !.grade_score = score,
                        !.grade_reasoning = <<c1.reason, c2.reason, c3.reason, c4.reason>>]]

----------------------------------------------------------------------------
(* kelly_sizing                                                            *)

\* kelly_fraction with model_prob = 1 let through (> for >= at line 29)
kelly_fraction_certain(model_prob, odds, fraction) ==
  IF FLe(model_prob, FZero) \/ FGt(model_prob, FOne) \/ FLe(odds, FOne) THEN FZero
  ELSE Bind(FSub(odds, FOne), LAMBDA b :
       Bind(FSub(FOne, model_prob), LAMBDA q :
       Bind(FDiv(FSub(FMul(model_prob, b), q), b), LAMBDA kelly :
         IF FLe(kelly, FZero) THEN FZero
         ELSE FMin(FMul(fraction, kelly), FOne))))

\* kelly_fraction with p and q exchanged in the Kelly formula of line 34
kelly_fraction_swapped(model_prob, odds, fraction) ==
  IF FLe(model_prob, FZero) \/ FGe(model_prob, FOne) \/ FLe(odds, FOne) THEN FZero
  ELSE Bind(FSub(odds, FOne), LAMBDA b :
       Bind(FSub(FOne, model_prob), LAMBDA q :
       Bind(FDiv(FSub(FMul(q, b), model_prob), b), LAMBDA kelly :
         IF FLe(kelly, FZero) THEN FZero
         ELSE FMin(FMul(fraction, kelly), FOne))))

\* kelly_fraction(model_prob, odds, fraction), lines 29-39
kelly_fraction(model_prob, odds, fraction) ==
  IF FLe(model_prob, FZero) \/ FGe(model_prob, FOne) \/ FLe(odds, FOne) THEN FZero
  ELSE Bind(FSub(odds, FOne), LAMBDA b :
       Bind(FSub(FOne, model_prob), LAMBDA q :
       Bind(FDiv(FSub(FMul(model_prob, b), q), b), LAMBDA kelly :
         IF FLe(kelly, FZero) THEN FZero
         ELSE FMin(FMul(fraction, kelly), FOne))))

\* kelly_units without the cap of line 68
kelly_units_uncapped(model_prob, odds, bankroll, unit_size, max_bet, fraction) ==
  IF FLe(bankroll, FZero) \/ FLe(unit_size, FZero) THEN FZero
  ELSE Bind(kelly_fraction(model_prob, odds, fraction), LAMBDA kelly_pct :
       Bind(FMul(kelly_pct, bankroll), LAMBDA bet_dollars :
       Bind(Round2(FDiv(bet_dollars, unit_size)), LAMBDA units :
         FMax(units, FZero))))

\* kelly_units(model_prob, odds, bankroll, unit_size, max_bet, fraction), lines 64-72
kelly_units(model_prob, odds, bankroll, unit_size, max_bet, fraction) ==
  IF FLe(bankroll, FZero) \/ FLe(unit_size, FZero) THEN FZero
  ELSE Bind(kelly_fraction(model_prob, odds, fraction), LAMBDA kelly_pct :
       Bind(FMin(kelly_pct, max_bet), LAMBDA bet_pct :
       Bind(FMul(bet_pct, bankroll), LAMBDA bet_dollars :
       Bind(Round2(FDiv(bet_dollars, unit_size)), LAMBDA units :
         FMax(units, FZero)))))

\* str.upper() of a grade letter
Upper(grade) ==
  CASE grade = "a" -> "A" [] grade = "b" -> "B" [] grade = "c" -> "C" [] OTHER -> grade

\* the test of line 94 without the upper()
EvaluatesKellyCaseSensitive(grade) == grade # "C"

\* grade_adjusted_units evaluates kelly_units unless it returns at line 95
EvaluatesKelly(grade) == Upper(grade) # "C"

\* grade_adjusted_units flooring its own result at 0.5 (A) and 0.25 (B)
grade_adjusted_units_floored(grade, model_prob, odds, bankroll, unit_size, max_bet, fraction) ==
  IF ~EvaluatesKelly(grade) THEN FZero
  ELSE Bind(kelly_units(model_prob, odds, bankroll, unit_size, max_bet, fraction),
            LAMBDA units :
              IF Upper(grade) = "B"
              THEN FMax(Round2(FMul(units, FromRatio(1, 2))), FromRatio(1, 4))
              ELSE FMax(units, FromRatio(1, 2)))

\* grade_adjusted_units(grade, model_prob, odds, bankroll, unit_size, max_bet,
\* fraction), lines 94-102
grade_adjusted_units(grade, model_prob, odds, bankroll, unit_size, max_bet, fraction) ==
  IF ~EvaluatesKelly(grade) THEN FZero
  ELSE Bind(kelly_units(model_prob, odds, bankroll, unit_size, max_bet, fraction),
            LAMBDA units :
              IF Upper(grade) = "B" THEN Round2(FMul(units, FromRatio(1, 2)))
              ELSE units)

\* american_to_decimal with the favourite's price as abs(american) / 100
american_to_decimal_inverted(american) ==
  IF american > 0
  THEN [exc |-> "", val |-> FAdd(FOne, FromRatio(american, 100))]
  ELSE IF american = 0 THEN [exc |-> "", val |-> FOne]
       ELSE [exc |-> "", val |-> FAdd(FOne, FromRatio(-american, 100))]

\* american_to_decimal(american), lines 107-110: [exc, val]; 100 / abs(0) raises
american_to_decimal(american) ==
  IF american > 0
  THEN [exc |-> "", val |-> FAdd(FOne, FromRatio(american, 100))]
  ELSE IF american = 0 THEN [exc |-> "ZeroDivisionError", val |-> FZero]
       ELSE [exc |-> "", val |-> FAdd(FOne, FromRatio(100, -american))]

\* The defaults of kelly_units and grade_adjusted_units (max_bet=0.05,
\* fraction=0.1) and the floors run_decision_loop applies (lines 387 and 404)
DefaultMaxBet == FromRatio(5, 100)
DefaultFraction == FromRatio(1, 10)
FloorA == FromRatio(1, 2)
FloorB == FromRatio(1, 4)

\* run_decision_loop, lines 387 and 404: units = max(units, floor)
StakeFloor(grade, units) ==
  IF grade = "A" THEN FMax(units, FloorA)
  ELSE IF grade = "B" THEN FMax(units, FloorB)
  ELSE units

----------------------------------------------------------------------------
(* The grade scorer on its own: an analysis of any shape, then grade_pick. *)

TagVegas == <<"V", "e", "g", "a", "s", "B", "a", "c", "k", "e", "d">>
TagConflict == <<"l", "i", "n", "e", " ", "C", "O", "N", "F", "L", "I", "C", "T">>

EdgeInputs ==
  {PyNumStr(5, 1), PyNumStr(3, 1), PyNumStr(29, 10), PyStr("N/A"), PyNone}

SpreadInputs ==
  {PyAbsent, PyNone, PyNum(0, 1), PyNum(-7, 2), PyNumStr(3, 1), PyStr("pk")}

LineMovementInputs ==
  {LineMovement(c, o) : c \in SpreadInputs, o \in SpreadInputs}
    \cup {LineMovementNone, LineMovementAbsent}

DivergenceInputs ==
  {PyNone, PyStr("Sharp Action"), PyStr("Public Heavy"), PyStr("Aligned")}

SharpSignalsInputs ==
  {SharpSignalsNone, SharpSignals(<<>>), SharpSignals(<<TagVegas>>),
   SharpSignals(<<TagVegas, TagConflict>>)}

SignalsInputs ==
  {Signals(lm, dv, ss) : lm \in LineMovementInputs, dv \in DivergenceInputs,
                         ss \in SharpSignalsInputs}
    \cup {SignalsNone, SignalsAbsent}

\* The analysis as run_pre_bet_analysis leaves it: grade 'C', no reasoning, and
\* no grade_score key (-1 here).
NewAnalysis(edge, signals) ==
  [edge |-> edge, signals |-> signals, grade |-> "C", grade_score |-> -1,
   grade_reasoning |-> <<>>]

----------------------------------------------------------------------------
(* The stake sizer on its own: arguments from bounded sets, then the call. *)

\* Probabilities are the multiples of 1 / PGrid from -1 / PGrid to 1 + 1 / PGrid.
PGrid == 8

ProbInputs == {FromRatio(n, PGrid) : n \in -1..(PGrid + 1)}

\* 1.0 (no payout), -110 American (21/11) and 2.5
OddsInputs == {FOne, american_to_decimal(-110).val, FromRatio(5, 2)}

FractionInputs == {FromRatio(-1, 10), DefaultFraction, FOne, FromInt(2)}

BankrollInputs == {FZero, FromInt(5000), FromInt(1234)}

UnitSizeInputs == {FZero, FromInt(100), FromInt(30)}

MaxBetInputs == {DefaultMaxBet, FromRatio(1, 4)}

GradeInputs == {"A", "B", "C", "b", "c"}

KellyIdle ==
  [fn |-> "none", grade |-> "", model_prob |-> FZero, odds |-> FZero,
   bankroll |-> FZero, unit_size |-> FZero, max_bet |-> FZero, fraction |-> FZero,
   ret |-> FZero, evaluated |-> FALSE, prev |-> <<>>, floored |-> <<>>]

VARIABLES
  gradeCall,   \* the grade_pick call: its analysis, and how it ended
  kellyCall,   \* the kelly_sizing call: its arguments and what it returned
  loop,        \* run_decision_loop: its position, its lists and the files it writes
  fetcher,     \* a SignalFetcher: its insider_data and its get_game_signals call
  joiner       \* analyze_signals: the two ledger files it reads and its report

vars == <<gradeCall, kellyCall, loop, fetcher, joiner>>

\* run_decision_loop not running
LoopIdle ==
  [pc |-> "idle", picks |-> <<>>, i |-> 0, a_picks |-> <<>>, b_picks |-> <<>>,
   c_picks |-> <<>>, j |-> 0, bet_log |-> <<>>, grade_performance |-> <<>>,
   signal_performance |-> <<>>, stakes |-> <<>>, exc |-> "",
   grade_headers |-> 0, signal_headers |-> 0, run |-> 1, base |-> 0,
   lookups |-> <<>>]

GradeIdle == [pc |-> "idle", analysis |-> <<>>, exc |-> "", ret |-> ""]

\* No SignalFetcher is in use
FetcherIdle ==
  [pc |-> "idle", response |-> <<>>, insider_data |-> <<>>, fetches |-> 0,
   home_team |-> <<>>, away_team |-> <<>>, exc |-> "", ret |-> <<>>]

\* analyze_signals is not running
JoinerIdle ==
  [pc |-> "idle", grade_rows |-> <<>>, signal_rows |-> <<>>, edits |-> 0, report |-> <<>>]

GradeInit ==
  /\ \E edge \in EdgeInputs, signals \in SignalsInputs :
       gradeCall = [pc |-> "call", analysis |-> NewAnalysis(edge, signals), exc |-> "",
                    ret |-> ""]
  /\ kellyCall = KellyIdle
  /\ loop = LoopIdle
  /\ fetcher = FetcherIdle
  /\ joiner = JoinerIdle

GradePickCall ==
  /\ gradeCall.pc = "call"
  /\ LET r == grade_pick(gradeCall.analysis)
     IN  gradeCall' = [pc |-> IF r.exc = "" THEN "returned" ELSE "raised",
                       analysis |-> r.analysis, exc |-> r.exc,
                       ret |-> IF r.exc = "" THEN r.analysis.grade ELSE ""]
  /\ UNCHANGED <<kellyCall, loop, fetcher, joiner>>

GradeNext == GradePickCall

SpecGrade == GradeInit /\ [][GradeNext]_vars

\* C1: whenever grade_pick returns, the score it stored is one of 0, 1, 2, 3, 4
\* and the grade is decided by the score alone: A iff score >= 4, B iff
\* score = 3, C iff score <= 2.
C1_GradeIsFunctionOfScore ==
  gradeCall.pc = "returned" =>
    LET score == gradeCall.analysis.grade_score
        grade == gradeCall.analysis.grade
    IN  /\ score \in 0..4
        /\ grade \in {"A", "B", "C"}
        /\ grade = gradeCall.ret
        /\ (grade = "A") <=> (score >= 4)
        /\ (grade = "B") <=> (score = 3)
        /\ (grade = "C") <=> (score <= 2)

\* grade_pick has returned grade B on a score of 3
C1_Witness ==
  /\ gradeCall.pc = "returned"
  /\ gradeCall.analysis.grade = "B"
  /\ gradeCall.analysis.grade_score = 3

\* The reasoning texts each of the four checks can append, in the checks' order
CheckTexts ==
  << {"Model edge significant", "Model edge weak (< 3%)", "Model edge unknown"},
     {"Line movement tracked", "Line movement unclear", "Line movement data unavailable"},
     {"Sharp money aligned", "Public heavy (consider fade)", "No sharp signal"},
     {"No conflicting signals", "Conflicting signals present"} >>

PassCount(reasoning) ==
  Cardinality({i \in 1..Len(reasoning) : reasoning[i].mark = "pass"})

\* C2: whenever grade_pick returns, the reasoning list has exactly four
\* entries, the i-th one written by the i-th check (edge, line movement, sharp
\* money, conflict), and the score equals the number of entries marked as
\* passed.
C2_FourReasonsInOrder ==
  gradeCall.pc = "returned" =>
    LET reasoning == gradeCall.analysis.grade_reasoning
    IN  /\ Len(reasoning) = 4
        /\ \A i \in 1..4 : reasoning[i].text \in CheckTexts[i]
        /\ gradeCall.analysis.grade_score = PassCount(reasoning)

\* grade_pick has returned with two checks passed, the sharp-money check having
\* failed on a public-heavy game and the conflict check on a conflict tag
C2_Witness ==
  /\ gradeCall.pc = "returned"
  /\ gradeCall.analysis.grade_score = 2
  /\ gradeCall.analysis.grade_reasoning[3] = Reason("fail", "Public heavy (consider fade)")
  /\ gradeCall.analysis.grade_reasoning[4] = Reason("fail", "Conflicting signals present")

\* A spread field that is there and that float() parses
PresentNumeric(x) == x.t \in {"num", "numstr"}

\* A spread field that is missing: no such key, or None
Missing(x) == x.t \in {"absent", "none"}

\* C3: when grade_pick returns for a bundle whose line_movement has both spreads
\* present and numeric (0 included), the second reasoning entry is the passed
\* "Line movement tracked"; and the second entry is "Line movement data
\* unavailable" only when a spread field is missing.
C3_LineMovementPassesForEveryNumber ==
  (gradeCall.pc = "returned" /\ gradeCall.analysis.signals.t = "dict") =>
    LET line_movement == LineMovementOf(gradeCall.analysis.signals)
        entry == gradeCall.analysis.grade_reasoning[2]
    IN  /\ (PresentNumeric(line_movement.spread_current)
             /\ PresentNumeric(line_movement.spread_open))
              => entry = Reason("pass", "Line movement tracked")
        /\ entry.text = "Line movement data unavailable"
              => (Missing(line_movement.spread_current)
                  \/ Missing(line_movement.spread_open))

\* C4: grade_pick never ends by raising: for every analysis, whatever of its
\* signal bundle is absent or null, it returns a grade.
C4_NoExceptionLeavesGradePick ==
  /\ gradeCall.pc # "raised"
  /\ gradeCall.pc = "returned" => gradeCall.ret \in {"A", "B", "C"}

KellyInit ==
  /\ gradeCall = GradeIdle
  /\ kellyCall = KellyIdle
  /\ loop = LoopIdle
  /\ fetcher = FetcherIdle
  /\ joiner = JoinerIdle

\* kelly_fraction(model_prob, odds, fraction)
KellyFractionCall ==
  /\ kellyCall.fn = "none"
  /\ \E p \in ProbInputs, odds \in OddsInputs, fraction \in FractionInputs :
       kellyCall' = [KellyIdle EXCEPT !.fn = "kelly_fraction", !.model_prob = p,
                       !.odds = odds, !.fraction = fraction,
                       !.ret = kelly_fraction(p, odds, fraction)]
  /\ UNCHANGED <<gradeCall, loop, fetcher, joiner>>

\* a second kelly_fraction call with the same odds and fraction and another
\* probability; prev keeps the first call's probability and result
KellyFractionAgain ==
  /\ kellyCall.fn = "kelly_fraction"
  /\ kellyCall.prev = <<>>
  /\ \E p \in ProbInputs :
       kellyCall' = [kellyCall EXCEPT
                       !.model_prob = p,
                       !.ret = kelly_fraction(p, kellyCall.odds, kellyCall.fraction),
                       !.prev = <<[model_prob |-> kellyCall.model_prob,
                                   ret |-> kellyCall.ret]>>]
  /\ UNCHANGED <<gradeCall, loop, fetcher, joiner>>

KellyFractionNext == KellyFractionCall \/ KellyFractionAgain

SpecKellyFraction == KellyInit /\ [][KellyFractionNext]_vars

\* (p * b - q) / b with b = odds - 1 and q = 1 - p, in floating point
FullKelly(p, odds) ==
  Bind(FSub(odds, FOne), LAMBDA b :
    FDiv(FSub(FMul(p, b), FSub(FOne, p)), b))

\* C5: kelly_fraction(p, odds, fraction) is 0 when p <= 0 or p >= 1 or
\* odds <= 1, is 0 when (p * b - q) / b <= 0, and is otherwise
\* min(fraction * (p * b - q) / b, 1.0); for a fraction in [0, 1] it lies in
\* [0, 1].
C5_KellyFractionValue ==
  kellyCall.fn = "kelly_fraction" =>
    LET p == kellyCall.model_prob
        odds == kellyCall.odds
        fraction == kellyCall.fraction
        ret == kellyCall.ret
    IN  /\ IF FLe(p, FZero) \/ FGe(p, FOne) \/ FLe(odds, FOne) THEN ret = FZero
           ELSE Bind(FullKelly(p, odds), LAMBDA kelly :
                  IF FLe(kelly, FZero) THEN ret = FZero
                  ELSE ret = FMin(FMul(fraction, kelly), FOne))
        /\ (FGe(fraction, FZero) /\ FLe(fraction, FOne))
             => (FGe(ret, FZero) /\ FLe(ret, FOne))

\* kelly_fraction has returned a stake fraction strictly between 0 and 1 at the
\* tenth-Kelly setting, and has returned 0 for a certain win (p = 1)
C5_Witness ==
  /\ kellyCall.fn = "kelly_fraction"
  /\ kellyCall.prev # <<>>
  /\ kellyCall.fraction = DefaultFraction
  /\ FGt(kellyCall.ret, FZero) /\ FLt(kellyCall.ret, FOne)
  /\ kellyCall.prev[1].model_prob = FOne
  /\ kellyCall.prev[1].ret = FZero

\* C6: for fixed odds > 1 and fixed fraction >= 0, of two kelly_fraction calls
\* with probabilities p1 <= p2 < 1, the first returning a positive value, the
\* second returns at least as much.
C6_KellyFractionMonotone ==
  (kellyCall.fn = "kelly_fraction" /\ kellyCall.prev # <<>>) =>
    LET p1 == kellyCall.prev[1].model_prob
        p2 == kellyCall.model_prob
    IN  (/\ FGt(kellyCall.odds, FOne)
         /\ FGe(kellyCall.fraction, FZero)
         /\ FLe(p1, p2)
         /\ FLt(p2, FOne)
         /\ FGt(kellyCall.prev[1].ret, FZero))
          => FLe(kellyCall.prev[1].ret, kellyCall.ret)

\* two calls at the same odds and fraction, p1 < p2 < 1, the first positive and
\* the second strictly larger
C6_Witness ==
  /\ kellyCall.fn = "kelly_fraction"
  /\ kellyCall.prev # <<>>
  /\ FGt(kellyCall.odds, FOne)
  /\ FGt(kellyCall.fraction, FZero)
  /\ FLt(kellyCall.prev[1].model_prob, kellyCall.model_prob)
  /\ FLt(kellyCall.model_prob, FOne)
  /\ FGt(kellyCall.prev[1].ret, FZero)
  /\ FLt(kellyCall.prev[1].ret, kellyCall.ret)

\* kelly_units(model_prob, odds, bankroll, unit_size, max_bet, fraction)
KellyUnitsCall ==
  /\ kellyCall.fn = "none"
  /\ \E p \in ProbInputs, odds \in OddsInputs, bankroll \in BankrollInputs,
        unit_size \in UnitSizeInputs, max_bet \in MaxBetInputs,
        fraction \in {DefaultFraction, FOne} :
       kellyCall' = [KellyIdle EXCEPT !.fn = "kelly_units", !.model_prob = p,
                       !.odds = odds, !.bankroll = bankroll, !.unit_size = unit_size,
                       !.max_bet = max_bet, !.fraction = fraction,
                       !.ret = kelly_units(p, odds, bankroll, unit_size, max_bet,
                                           fraction)]
  /\ UNCHANGED <<gradeCall, loop, fetcher, joiner>>

KellyUnitsNext == KellyUnitsCall

SpecKellyUnits == KellyInit /\ [][KellyUnitsNext]_vars

\* C7: kelly_units returns 0 if bankroll <= 0 or unit_size <= 0; otherwise it
\* returns round(min(kelly_fraction(p, odds, fraction), max_bet) * bankroll /
\* unit_size, 2), which is >= 0 and at most round(max_bet * bankroll /
\* unit_size, 2), for every p and odds.
C7_KellyUnitsValue ==
  kellyCall.fn = "kelly_units" =>
    LET bankroll == kellyCall.bankroll
        unit_size == kellyCall.unit_size
        max_bet == kellyCall.max_bet
        ret == kellyCall.ret
    IN  IF FLe(bankroll, FZero) \/ FLe(unit_size, FZero) THEN ret = FZero
        ELSE /\ Bind(kelly_fraction(kellyCall.model_prob, kellyCall.odds,
                                    kellyCall.fraction), LAMBDA kf :
                  ret = Round2(FDiv(FMul(FMin(kf, max_bet), bankroll), unit_size)))
             /\ FGe(ret, FZero)
             /\ FLe(ret, Round2(FDiv(FMul(max_bet, bankroll), unit_size)))

\* kelly_units has returned the capped stake: full Kelly asks for more than
\* max_bet and the result is round(max_bet * bankroll / unit_size, 2) > 0
C7_Witness ==
  /\ kellyCall.fn = "kelly_units"
  /\ FGt(kellyCall.bankroll, FZero) /\ FGt(kellyCall.unit_size, FZero)
  /\ kellyCall.fraction = FOne
  /\ FGt(kellyCall.ret, FZero)
  /\ kellyCall.ret = Round2(FDiv(FMul(kellyCall.max_bet, kellyCall.bankroll),
                                 kellyCall.unit_size))

\* grade_adjusted_units(grade, model_prob, odds, bankroll, unit_size) with the
\* default max_bet and the fraction run_decision_loop passes
GradeAdjustedUnitsCall ==
  /\ kellyCall.fn = "none"
  /\ \E grade \in GradeInputs, p \in ProbInputs, odds \in OddsInputs,
        bankroll \in BankrollInputs, unit_size \in {FZero, FromInt(100)} :
       kellyCall' = [KellyIdle EXCEPT !.fn = "grade_adjusted_units", !.grade = grade,
                       !.model_prob = p, !.odds = odds, !.bankroll = bankroll,
                       !.unit_size = unit_size, !.max_bet = DefaultMaxBet,
                       !.fraction = DefaultFraction,
                       !.evaluated = EvaluatesKelly(grade),
                       !.ret = grade_adjusted_units(grade, p, odds, bankroll, unit_size,
                                                    DefaultMaxBet, DefaultFraction)]
  /\ UNCHANGED <<gradeCall, loop, fetcher, joiner>>

\* run_decision_loop on the value returned for an A or a B pick (lines 387, 404)
CallerFloor ==
  /\ kellyCall.fn = "grade_adjusted_units"
  /\ kellyCall.grade \in {"A", "B"}
  /\ kellyCall.floored = <<>>
  /\ kellyCall' = [kellyCall EXCEPT !.floored = <<StakeFloor(kellyCall.grade, kellyCall.ret)>>]
  /\ UNCHANGED <<gradeCall, loop, fetcher, joiner>>

GradeAdjustedNext == GradeAdjustedUnitsCall \/ CallerFloor

SpecGradeAdjusted == KellyInit /\ [][GradeAdjustedNext]_vars

\* C8: for grade C (in either case) grade_adjusted_units returns 0 whatever the
\* probability, odds, bankroll and unit size, and does not evaluate kelly_units.
C8_GradeCIsZero ==
  (kellyCall.fn = "grade_adjusted_units" /\ Upper(kellyCall.grade) = "C") =>
    (kellyCall.ret = FZero /\ ~kellyCall.evaluated)

\* grade_adjusted_units has returned for a lower-case 'c' on arguments for
\* which grade A gets a positive stake
C8_Witness ==
  /\ kellyCall.fn = "grade_adjusted_units"
  /\ kellyCall.grade = "c"
  /\ FGt(kelly_units(kellyCall.model_prob, kellyCall.odds, kellyCall.bankroll,
                     kellyCall.unit_size, kellyCall.max_bet, kellyCall.fraction), FZero)

\* C9 as stated: grade_adjusted_units itself never returns less than 0.5 for
\* grade A nor less than 0.25 for grade B.
C9_FloorsInsideGradeAdjustedUnits ==
  kellyCall.fn = "grade_adjusted_units" =>
    /\ Upper(kellyCall.grade) = "A" => FGe(kellyCall.ret, FloorA)
    /\ Upper(kellyCall.grade) = "B" => FGe(kellyCall.ret, FloorB)

\* C9 as the code has it: grade_adjusted_units returns kelly_units(...) for
\* grade A and round(kelly_units(...) * 0.5, 2) for grade B, with no floor (0
\* when Kelly is 0); the floors are run_decision_loop's, which takes
\* max(units, 0.5) for an A pick and max(units, 0.25) for a B pick, so the
\* stake it logs is never below the floor.
C9_FloorsAreTheCallers ==
  kellyCall.fn = "grade_adjusted_units" =>
    /\ Upper(kellyCall.grade) \in {"A", "B"} =>
         Bind(kelly_units(kellyCall.model_prob, kellyCall.odds, kellyCall.bankroll,
                          kellyCall.unit_size, kellyCall.max_bet, kellyCall.fraction),
              LAMBDA units :
                kellyCall.ret = IF Upper(kellyCall.grade) = "A" THEN units
                                ELSE Round2(FMul(units, FromRatio(1, 2))))
    /\ kellyCall.floored # <<>> =>
         /\ kellyCall.floored[1] = FMax(kellyCall.ret,
                                        IF kellyCall.grade = "A" THEN FloorA ELSE FloorB)
         /\ FGe(kellyCall.floored[1], IF kellyCall.grade = "A" THEN FloorA ELSE FloorB)

\* grade_adjusted_units has returned 0 for an A pick with a positive bankroll
\* and unit size (no edge), and run_decision_loop has raised it to 0.5
C9_Witness ==
  /\ kellyCall.fn = "grade_adjusted_units"
  /\ kellyCall.grade = "A"
  /\ FGt(kellyCall.bankroll, FZero) /\ FGt(kellyCall.unit_size, FZero)
  /\ kellyCall.ret = FZero
  /\ kellyCall.floored = <<FloorA>>

----------------------------------------------------------------------------
(* decision_loop.run_decision_loop and what it calls.  A pick is a row of  *)
(* one of the two tracker CSV files; key stands for the fields that        *)
(* identify the row in its file ((player, market, line) for a player prop, *)
(* (game, pick) for a team pick), and a key of one file is taken never to  *)
(* equal a key of the other.  signals is what get_game_signals returns for *)
(* the full team names and retry what it returns for the last words.       *)

\* BANKROLL and UNIT_SIZE at their environment defaults, and KELLY_FRACTION
\* (lines 369-371)
BANKROLL == FromInt(5000)
UNIT_SIZE == FromInt(100)
KELLY_FRACTION == FromRatio(1, 10)

\* get_game_signals' bundle when no game matched (signal_fetcher.py 65-78)
DefaultBundle == Signals(EmptyLineMovement, PyNone, SharpSignals(<<>>))

\* Lines 347-350: the full-name lookup, and the short-name lookup when the
\* first has no (truthy) current spread
FetchSignals(pick) ==
  IF Truthy(Get(LineMovementOf(pick.signals).spread_current)) THEN pick.signals
  ELSE pick.retry

\* datetime.now().strftime('%Y-%m-%d'), the day of the run
Now == "2026-11-05"

\* Lines 347-350: the names get_game_signals is called with for the pick, in
\* the order of the calls
Lookups(pick) ==
  IF Truthy(Get(LineMovementOf(pick.signals).spread_current)) THEN <<"full">>
  ELSE <<"full", "short">>

\* pick.get(key, 'N/A')
GetOrNA(x) == IF x.t = "absent" THEN PyStr("N/A") ELSE x

\* run_pre_bet_analysis(pick, signals), lines 54-92.  edge is the row's
\* edge_pct (player prop) or edge (team pick) column; paper_bet FALSE is the
\* key not being there.
run_pre_bet_analysis(pick, signals) ==
  [date |-> IF pick.date.t = "absent" THEN Now ELSE pick.date.v,
   game |-> pick.game, pick_desc |-> pick.pick_desc, model_type |-> pick.model_type,
   key |-> pick.key, edge |-> GetOrNA(pick.edge), odds |-> GetOrNA(pick.odds),
   signals |-> signals, grade |-> "C", grade_score |-> -1, grade_reasoning |-> <<>>,
   paper_bet |-> FALSE]

\* int(str(x).replace('+', '')): the exception it raises, "" when it returns
\* (the value is then x.n; a numeric string stands for itself with or without
\* a leading plus sign)
IntExc(x) == IF x.t \in {"num", "numstr"} /\ x.d = 1 THEN "" ELSE "ValueError"

\* Lines 378-381 and 395-398 without the except clause
DecimalOddsUncaught(odds_raw) ==
  IF IntExc(odds_raw) # "" THEN [exc |-> IntExc(odds_raw), val |-> FZero]
  ELSE american_to_decimal(odds_raw.n)

\* Lines 378-381 and 395-398: [exc, val]; only ValueError and TypeError are caught
DecimalOdds(odds_raw) ==
  IF IntExc(odds_raw) # "" THEN [exc |-> "", val |-> FromRatio(191, 100)]
  ELSE american_to_decimal(odds_raw.n)

\* Lines 382-385 and 399-402
ModelProb(edge, dec_odds, fallback) ==
  IF FloatExc(edge) # "" THEN fallback
  ELSE Bind(FDiv(FloatVal(edge), FromInt(100)), LAMBDA e :
       Bind(FDiv(FOne, dec_odds), LAMBDA implied : FAdd(e, implied)))

\* Lines 377-387 (grade A) and 394-404 (grade B): [exc, units], the units
\* handed to log_bet
StakeOf(grade, analysis) ==
  Bind(DecimalOdds(analysis.odds), LAMBDA o :
    IF o.exc # "" THEN [exc |-> o.exc, units |-> FZero]
    ELSE Bind(ModelProb(analysis.edge, o.val,
                        IF grade = "A" THEN FromRatio(55, 100) ELSE FromRatio(54, 100)),
              LAMBDA prob :
         Bind(grade_adjusted_units(grade, prob, o.val, BANKROLL, UNIT_SIZE,
                                   DefaultMaxBet, KELLY_FRACTION),
              LAMBDA units : [exc |-> "", units |-> StakeFloor(grade, units)])))

\* update_grade_tracker, lines 287-295: the row appended to grade_performance.csv
LedgerRow(analysis, units) ==
  [date |-> analysis.date, game |-> analysis.game, bet |-> analysis.pick_desc, grade |-> analysis.grade,
   units |-> units, result |-> "pending", profit_loss |-> 0]

\* log_signal_performance, lines 105-109
EdgeDirection(analysis) ==
  IF FloatExc(analysis.edge) # "" THEN "Unknown"
  ELSE IF FGe(FloatVal(analysis.edge), FromInt(3)) THEN "Edge >= 3%" ELSE "Edge < 3%"

\* x.get(key, 0)
GetOrZero(x) == IF x.t = "absent" THEN PyNum(0, 1) ELSE x

\* log_signal_performance, lines 121-132
MovementDirection(signals) ==
  LET line_mov == LineMovementOf(signals) IN
  IF line_mov.t # "dict" THEN "Unknown"
  ELSE LET cur == GetOrZero(line_mov.spread_current)
           open_ == GetOrZero(line_mov.spread_open)
       IN  IF FloatExc(cur) # "" \/ FloatExc(open_) # "" THEN "Unknown"
           ELSE Bind(FCmp(FloatVal(cur), FloatVal(open_)), LAMBDA c :
                  IF c > 0 THEN "Moved against"
                  ELSE IF c < 0 THEN "Moved toward" ELSE "No movement")

\* log_signal_performance, lines 144-152
SharpDirection(signals) ==
  LET sharp == signals.bet_vs_money_divergence IN
  IF sharp.t = "str" /\ sharp.v # "" THEN sharp.v ELSE "Unknown"

\* log_signal_performance, lines 164-177: the bundle get_game_signals builds has
\* neither a public_perc_divergence nor a public_percent key
PublicDirection(signals) == "Unknown"

SignalRow(analysis, signal_name, signal_direction) ==
  [date |-> analysis.date, game |-> analysis.game, bet |-> analysis.pick_desc, signal_name |-> signal_name,
   signal_direction |-> signal_direction, bet_result |-> "pending",
   notes |-> analysis.grade]

\* log_signal_performance with the public divergence row left out
SignalRowsWithoutPublic(analysis) ==
  << SignalRow(analysis, "model_edge", EdgeDirection(analysis)),
     SignalRow(analysis, "line_movement", MovementDirection(analysis.signals)),
     SignalRow(analysis, "sharp_money", SharpDirection(analysis.signals)) >>

\* log_signal_performance, lines 110-186: the four rows in the order written
SignalRows(analysis) ==
  << SignalRow(analysis, "model_edge", EdgeDirection(analysis)),
     SignalRow(analysis, "line_movement", MovementDirection(analysis.signals)),
     SignalRow(analysis, "sharp_money", SharpDirection(analysis.signals)),
     SignalRow(analysis, "public_perc_divergence", PublicDirection(analysis.signals)) >>

\* log_bet with both CSV writers writing their header line at every append
LogBetHeaderEachTime(l, analysis, units) ==
  [l EXCEPT !.bet_log = Append(@, [date |-> analysis.date, bet |-> analysis.pick_desc,
                                   grade |-> analysis.grade, units |-> units]),
            !.grade_headers = @ + 1,
            !.grade_performance = Append(@, LedgerRow(analysis, units)),
            !.signal_headers = @ + 1,
            !.signal_performance = @ \o SignalRows(analysis)]

\* log_bet(analysis, units), lines 266-281: the entry appended to the date's
\* bet log, the grade_performance row and the four signal_performance rows.
\* Each CSV file gets its header line when the append creates it (lines
\* 285-302 and 188-195); a file is there once it has its header.
LogBet(l, analysis, units) ==
  [l EXCEPT !.bet_log = Append(@, [date |-> analysis.date, bet |-> analysis.pick_desc,
                                   grade |-> analysis.grade, units |-> units]),
            !.grade_headers = IF @ = 0 THEN 1 ELSE @,
            !.grade_performance = Append(@, LedgerRow(analysis, units)),
            !.signal_headers = IF @ = 0 THEN 1 ELSE @,
            !.signal_performance = @ \o SignalRows(analysis)]

\* calculate_kelly_units(pick, grade), lines 427-458: [exc, val].  The odds
\* field is read as a decimal price first (line 433); a zero price divides by
\* zero at line 442, which is not caught.
calculate_kelly_units(pick, grade) ==
  Bind(IF FloatExc(pick.odds) = "" THEN FloatVal(pick.odds)
       ELSE IF IntExc(pick.odds) = "" /\ pick.odds.n # 0
            THEN american_to_decimal(pick.odds.n).val
            ELSE FromRatio(191, 100), LAMBDA dec_odds :
  Bind(IF Truthy(Get(pick.edge)) THEN pick.edge ELSE PyNum(0, 1), LAMBDA edge_raw :
    IF FloatExc(edge_raw) = "" /\ dec_odds = FZero
    THEN [exc |-> "ZeroDivisionError", val |-> FZero]
    ELSE Bind(ModelProb(edge_raw, dec_odds, FromRatio(55, 100)), LAMBDA prob :
         Bind(kelly_fraction(prob, dec_odds, FromRatio(1, 10)), LAMBDA kf :
         Bind(FMul(kf, FDiv(BANKROLL, UNIT_SIZE)), LAMBDA ku :
           [exc |-> "",
            val |-> Round2(IF grade = "A" THEN FMax(ku, FromRatio(1, 2))
                           ELSE IF grade = "B"
                                THEN FMax(FMul(ku, FromRatio(1, 2)), FromRatio(1, 4))
                                ELSE FZero)])))))

\* update_tracker_units, lines 472-480 and 503-511: the value the unit map gets
\* for a graded pick
UnitMapValue(analysis) ==
  IF analysis.grade = "C" THEN [exc |-> "", val |-> FZero]
  ELSE calculate_kelly_units(analysis, analysis.grade)

\* The graded picks in the order the unit map is filled: A, then B, then C
GradedPicks(l) == l.a_picks \o l.b_picks \o l.c_picks

\* The values computed for the graded picks from the k-th on, in order
RECURSIVE UnitMapValues(_, _)
UnitMapValues(all, k) ==
  IF k > Len(all) THEN <<>>
  ELSE <<UnitMapValue(all[k])>> \o UnitMapValues(all, k + 1)

\* The first exception a calculate_kelly_units call raises while a unit map is
\* being filled, "" if none does
UnitMapExc(values) ==
  LET bad == {k \in 1..Len(values) : values[k].exc # ""}
  IN  IF bad = {} THEN ""
      ELSE values[CHOOSE k \in bad : \A m \in bad : k <= m].exc

\* update_tracker_units, lines 483-486 and 514-517: the stake of source row r
\* after the rewrite; a later entry of the unit map replaces an earlier one
\* with the same key
PatchedStake(l, values, r) ==
  LET all == GradedPicks(l)
      same == {k \in 1..Len(all) : /\ all[k].model_type = l.picks[r].model_type
                                   /\ all[k].key = l.picks[r].key}
  IN  IF same = {} THEN l.stakes[r]
      ELSE <<values[CHOOSE k \in same : \A m \in same : m <= k].val>>

\* The logging loops with update_tracker_units called as soon as the A loop ends
LogPositionPatchAfterA(l, pc, j) ==
  LET afterB == IF Len(l.c_picks) >= 1 THEN [pc |-> "logC", j |-> 1]
                ELSE [pc |-> "patch", j |-> 0]
      afterA == [pc |-> "patch", j |-> 0]
  IN  CASE pc = "logA" -> IF j <= Len(l.a_picks) THEN [pc |-> pc, j |-> j] ELSE afterA
        [] pc = "logB" -> IF j <= Len(l.b_picks) THEN [pc |-> pc, j |-> j] ELSE afterB
        [] OTHER -> IF j <= Len(l.c_picks) THEN [pc |-> pc, j |-> j]
                    ELSE [pc |-> "patch", j |-> 0]

\* update_tracker_units, lines 489-492 and 520-523: a source row as the
\* DictWriter with the fixed field names writes it and a DictReader reads it
\* again.  A field of the list that the file had no column for is written as
\* an empty cell; the text of every other cell is written as it was read.
RewrittenRow(pick) ==
  [pick EXCEPT !.date = IF @.t = "absent" THEN PyStr("") ELSE @,
               !.edge = IF @.t = "absent" THEN PyStr("") ELSE @,
               !.odds = IF @.t = "absent" THEN PyStr("") ELSE @]

\* Where the logging loops of lines 376-412 stand once the j-th pick of the
\* list at pc is next: in that list, in the next non-empty list, or past them
LogPosition(l, pc, j) ==
  LET afterB == IF Len(l.c_picks) >= 1 THEN [pc |-> "logC", j |-> 1]
                ELSE [pc |-> "patch", j |-> 0]
      afterA == IF Len(l.b_picks) >= 1 THEN [pc |-> "logB", j |-> 1] ELSE afterB
  IN  CASE pc = "logA" -> IF j <= Len(l.a_picks) THEN [pc |-> pc, j |-> j] ELSE afterA
        [] pc = "logB" -> IF j <= Len(l.b_picks) THEN [pc |-> pc, j |-> j] ELSE afterB
        [] OTHER -> IF j <= Len(l.c_picks) THEN [pc |-> pc, j |-> j]
                    ELSE [pc |-> "patch", j |-> 0]

MoveTo(l, pos) == [l EXCEPT !.pc = pos.pc, !.j = pos.j]

Raise(l, exc) == [l EXCEPT !.pc = "raised", !.exc = exc]

----------------------------------------------------------------------------
(* The pipeline: one run of run_decision_loop over a batch of picks.       *)

Pick(date, model_type, game, pick_desc, key, edge, odds, signals, retry) ==
  [date |-> date, model_type |-> model_type, game |-> game, pick_desc |-> pick_desc, key |-> key,
   edge |-> edge, odds |-> odds, signals |-> signals, retry |-> retry]

\* A matched game with both spreads, sharp money and no conflict tag
SharpBundle ==
  Signals(LineMovement(PyNum(-7, 2), PyNum(-3, 1)), PyStr("Sharp Action"),
          SharpSignals(<<TagVegas>>))

\* A matched game whose spread has moved from -1 to 0, with sharp money
PickEmBundle ==
  Signals(LineMovement(PyNum(0, 1), PyNum(-1, 1)), PyStr("Sharp Action"),
          SharpSignals(<<TagVegas>>))

\* A matched game whose current spread is the text "PK", with sharp money
TextSpreadBundle ==
  Signals(LineMovement(PyStr("PK"), PyNum(-1, 1)), PyStr("Sharp Action"),
          SharpSignals(<<TagVegas>>))

\* The date column of the rows of the date's two tracker files
PickDate == PyStr("2026-01-15")

PickInputs ==
  { \* edge 5 at -110 on a sharp game
    Pick(PickDate, "Team Model", "BOS @ LAL", "LAL -3.5", 1, PyNumStr(5, 1),
         PyNumStr(-110, 1), SharpBundle, DefaultBundle),
    \* edge 1, spreads missing, public heavy
    Pick(PickDate, "Player Props", "BOS @ LAL", "Tatum points over 27.5", 1,
         PyNumStr(1, 1), PyNumStr(-110, 1),
         Signals(LineMovement(PyNone, PyNone), PyStr("Public Heavy"), SharpSignals(<<>>)),
         Signals(LineMovement(PyNone, PyNone), PyStr("Public Heavy"), SharpSignals(<<>>))),
    \* edge 5 at +150, opening spread 0
    Pick(PickDate, "Player Props", "NYK @ MIA", "Brunson assists over 6.5", 2,
         PyNumStr(5, 1), PyNumStr(150, 1),
         Signals(LineMovement(PyNum(-1, 1), PyNum(0, 1)), PyStr("Sharp Action"),
                 SharpSignals(<<>>)),
         DefaultBundle),
    \* no edge column and a price that is no number
    Pick(PickDate, "Team Model", "NYK @ MIA", "MIA ML", 2, PyAbsent, PyStr("EVEN"),
         SharpBundle, DefaultBundle),
    \* a price of 0
    Pick(PickDate, "Team Model", "DEN @ PHX", "PHX +2", 3, PyNumStr(4, 1),
         PyNumStr(0, 1), SharpBundle, DefaultBundle),
    \* a decimal price; only the short names match the game
    Pick(PickDate, "Team Model", "Los Angeles Lakers @ Boston Celtics", "Celtics -4", 5,
         PyNumStr(4, 1), PyNumStr(191, 100), DefaultBundle, SharpBundle),
    \* a pick'em game: the current spread is 0 under the full and the short names
    Pick(PickDate, "Team Model", "DAL @ HOU", "HOU PK", 4, PyNumStr(4, 1),
         PyNumStr(-110, 1), PickEmBundle, PickEmBundle),
    \* an edge and a current spread that are text
    Pick(PickDate, "Player Props", "NYK @ MIA", "Hart rebounds over 8.5", 3,
         PyStr("n/a"), PyNumStr(-110, 1), TextSpreadBundle, TextSpreadBundle) }

\* The most picks in a batch
MaxPicks == 2

\* load_model_picks, lines 25-48: the player props rows, then the team model rows
\* The rows of one file have the columns of the file's header
Batches ==
  {b \in UNION {[1..n -> PickInputs] : n \in 0..MaxPicks} :
     \A x, y \in 1..Len(b) :
       /\ x < y => ~(b[x].model_type = "Team Model" /\ b[y].model_type = "Player Props")
       /\ b[x].model_type = b[y].model_type =>
            (b[x].edge.t = "absent") = (b[y].edge.t = "absent")}

Init ==
  /\ gradeCall = GradeIdle
  /\ kellyCall = KellyIdle
  /\ fetcher = FetcherIdle
  /\ joiner = JoinerIdle
  /\ \E picks \in Batches :
       loop = [LoopIdle EXCEPT !.pc = "load", !.picks = picks,
                               !.stakes = [r \in 1..Len(picks) |-> <<>>]]

\* Lines 318-323: return when there is nothing to analyse
LoadPicks ==
  /\ loop.pc = "load"
  /\ loop' = IF loop.picks = <<>> THEN [loop EXCEPT !.pc = "done"]
             ELSE [loop EXCEPT !.pc = "analyze", !.i = 1]
  /\ UNCHANGED <<gradeCall, kellyCall, fetcher, joiner>>

\* Lines 333-364: one turn of the grading loop
AnalyzePick ==
  /\ loop.pc = "analyze"
  /\ loop' =
       Bind(grade_pick(run_pre_bet_analysis(loop.picks[loop.i],
                                            FetchSignals(loop.picks[loop.i]))),
            LAMBDA r :
         IF r.exc # "" THEN Raise(loop, r.exc)
         ELSE Bind([loop EXCEPT
                      !.a_picks = IF r.analysis.grade = "A"
                                  THEN Append(@, r.analysis) ELSE @,
                      !.b_picks = IF r.analysis.grade = "B"
                                  THEN Append(@, r.analysis) ELSE @,
                      !.c_picks = IF r.analysis.grade \notin {"A", "B"}
                                  THEN Append(@, r.analysis) ELSE @,
                      !.lookups = Append(@, Lookups(loop.picks[loop.i])),
                      !.i = @ + 1],
                   LAMBDA l :
                IF loop.i < Len(loop.picks) THEN l
                ELSE MoveTo(l, LogPosition(l, "logA", 1))))
  /\ UNCHANGED <<gradeCall, kellyCall, fetcher, joiner>>

\* Lines 376-390: one turn of the A loop
LogAPick ==
  /\ loop.pc = "logA"
  /\ loop' =
       Bind(StakeOf("A", loop.a_picks[loop.j]), LAMBDA stake :
         IF stake.exc # "" THEN Raise(loop, stake.exc)
         ELSE MoveTo(LogBet(loop, loop.a_picks[loop.j], stake.units),
                     LogPosition(loop, "logA", loop.j + 1)))
  /\ UNCHANGED <<gradeCall, kellyCall, fetcher, joiner>>

\* Lines 393-406: one turn of the B loop
LogBPick ==
  /\ loop.pc = "logB"
  /\ loop' =
       Bind(StakeOf("B", loop.b_picks[loop.j]), LAMBDA stake :
         IF stake.exc # "" THEN Raise(loop, stake.exc)
         ELSE MoveTo(LogBet(loop, loop.b_picks[loop.j], stake.units),
                     LogPosition(loop, "logB", loop.j + 1)))
  /\ UNCHANGED <<gradeCall, kellyCall, fetcher, joiner>>

\* Lines 409-412: one turn of the C loop
LogCPick ==
  /\ loop.pc = "logC"
  /\ loop' =
       Bind([loop EXCEPT !.c_picks[loop.j].paper_bet = TRUE], LAMBDA l :
         MoveTo(LogBet(l, l.c_picks[loop.j], FZero),
                LogPosition(l, "logC", loop.j + 1)))
  /\ UNCHANGED <<gradeCall, kellyCall, fetcher, joiner>>

\* Line 415: update_tracker_units rewrites the rows of the two tracker files
UpdateTrackerUnits ==
  /\ loop.pc = "patch"
  /\ loop' =
       Bind(UnitMapValues(GradedPicks(loop), 1), LAMBDA values :
         IF UnitMapExc(values) # "" THEN Raise(loop, UnitMapExc(values))
         ELSE [loop EXCEPT !.pc = "done",
                           !.picks = [r \in 1..Len(loop.picks) |->
                                        RewrittenRow(loop.picks[r])],
                           !.stakes = [r \in 1..Len(loop.picks) |->
                                         PatchedStake(loop, values, r)]])
  /\ UNCHANGED <<gradeCall, kellyCall, fetcher, joiner>>

Next ==
  \/ LoadPicks
  \/ AnalyzePick
  \/ LogAPick
  \/ LogBPick
  \/ LogCPick
  \/ UpdateTrackerUnits

Spec == Init /\ [][Next]_vars

\* edge = 5, American odds -110, both spreads there, sharp action, no conflict tag
IsScenarioA(analysis) ==
  /\ analysis.edge = PyNumStr(5, 1)
  /\ analysis.odds = PyNumStr(-110, 1)
  /\ analysis.signals = SharpBundle

\* C10 as stated: every scenario A pick gets score 4 and grade A, and the units
\* of its grade_performance row are 0.52.
C10_ScenarioAStakeAsStated ==
  \A k \in 1..Len(GradedPicks(loop)) :
    IsScenarioA(GradedPicks(loop)[k]) =>
      /\ GradedPicks(loop)[k].grade_score = 4
      /\ GradedPicks(loop)[k].grade = "A"
      /\ k <= Len(loop.grade_performance) =>
           loop.grade_performance[k].units = FromRatio(52, 100)

\* C10 as the code has it: every scenario A pick gets score 4 and grade A, and
\* with bankroll 5000, unit size 100, Kelly fraction 0.1 and max bet 0.05 the
\* units of its grade_performance row (Kelly units after the A floor) are 0.53.
C10_ScenarioAStake ==
  \A k \in 1..Len(GradedPicks(loop)) :
    IsScenarioA(GradedPicks(loop)[k]) =>
      /\ GradedPicks(loop)[k].grade_score = 4
      /\ GradedPicks(loop)[k].grade = "A"
      /\ k <= Len(loop.grade_performance) =>
           /\ loop.grade_performance[k].grade = "A"
           /\ loop.grade_performance[k].units = FromRatio(53, 100)

\* the run is over and the first row of grade_performance is a scenario A
\* pick's, with 0.53 units
C10_Witness ==
  /\ loop.pc = "done"
  /\ Len(loop.grade_performance) >= 1
  /\ IsScenarioA(GradedPicks(loop)[1])
  /\ loop.grade_performance[1].units = FromRatio(53, 100)

\* edge = 1, no spread in the line movement, public heavy, no conflict tag
IsScenarioB(analysis) ==
  /\ analysis.edge = PyNumStr(1, 1)
  /\ analysis.signals.t = "dict"
  /\ LineMovementOf(analysis.signals).t = "dict"
  /\ Missing(LineMovementOf(analysis.signals).spread_current)
  /\ Missing(LineMovementOf(analysis.signals).spread_open)
  /\ analysis.signals.bet_vs_money_divergence = PyStr("Public Heavy")
  /\ ConflictCheck(analysis.signals).inc = 1

\* C11 as stated: every scenario B pick gets score 0 and grade C, and the units
\* of its grade_performance row are 0.
C11_ScenarioBAsStated ==
  \A k \in 1..Len(GradedPicks(loop)) :
    IsScenarioB(GradedPicks(loop)[k]) =>
      /\ GradedPicks(loop)[k].grade_score = 0
      /\ GradedPicks(loop)[k].grade = "C"
      /\ k <= Len(loop.grade_performance) => loop.grade_performance[k].units = FZero

\* C11 as the code has it: every scenario B pick gets score 1 (the conflict
\* check is the one check that passes) and grade C, and its grade_performance
\* row has grade C and 0 units.
C11_ScenarioB ==
  \A k \in 1..Len(GradedPicks(loop)) :
    IsScenarioB(GradedPicks(loop)[k]) =>
      /\ GradedPicks(loop)[k].grade_score = 1
      /\ PassCount(GradedPicks(loop)[k].grade_reasoning) = 1
      /\ GradedPicks(loop)[k].grade_reasoning[4].mark = "pass"
      /\ GradedPicks(loop)[k].grade = "C"
      /\ k <= Len(loop.grade_performance) =>
           /\ loop.grade_performance[k].grade = "C"
           /\ loop.grade_performance[k].units = FZero

\* the run is over and the first row of grade_performance is a scenario B
\* pick's, with 0 units
C11_Witness ==
  /\ loop.pc = "done"
  /\ Len(loop.grade_performance) >= 1
  /\ IsScenarioB(GradedPicks(loop)[1])
  /\ loop.grade_performance[1].units = FZero

\* The signal names in the order log_signal_performance writes them
SignalNames == <<"model_edge", "line_movement", "sharp_money", "public_perc_divergence">>

\* C12: the number of signal_performance rows is four times the number of
\* grade_performance rows; the k-th grade_performance row has result 'pending'
\* and profit_loss 0 and is the row of the k-th log_bet call of the run, and the
\* four signal rows of that call carry the four signal names in order, all with
\* bet_result 'pending' and the row's grade letter as notes.
C12_OneLedgerRowFourSignalRows ==
  /\ Len(loop.signal_performance) = 4 * Len(loop.grade_performance)
  /\ Len(loop.bet_log) = Len(loop.grade_performance)
  /\ \A k \in 1..Len(loop.grade_performance) :
       /\ loop.grade_performance[k].result = "pending"
       /\ loop.grade_performance[k].profit_loss = 0
       /\ loop.grade_performance[k].bet = GradedPicks(loop)[k].pick_desc
       /\ loop.grade_performance[k].grade = GradedPicks(loop)[k].grade
       /\ \A m \in 1..4 :
            /\ loop.signal_performance[4 * (k - 1) + m].signal_name = SignalNames[m]
            /\ loop.signal_performance[4 * (k - 1) + m].bet_result = "pending"
            /\ loop.signal_performance[4 * (k - 1) + m].notes = loop.grade_performance[k].grade
            /\ loop.signal_performance[4 * (k - 1) + m].bet = loop.grade_performance[k].bet

\* two log_bet calls have completed: two ledger rows and eight signal rows
C12_Witness ==
  /\ Len(loop.grade_performance) = 2
  /\ Len(loop.signal_performance) = 8
  /\ loop.signal_performance[8].signal_name = "public_perc_divergence"

----------------------------------------------------------------------------
(* The pipeline run again for the same date: the tracker files are the ones *)
(* the earlier run left, the ledger files are the ones it appended to.      *)

\* The most runs of the pipeline
MaxRuns == 2

\* run_decision_loop called again (lines 526-532): its locals are new; base is
\* the number of grade_performance rows the earlier runs wrote
Rerun ==
  /\ loop.pc \in {"done", "raised"}
  /\ loop.run < MaxRuns
  /\ loop' = [loop EXCEPT !.pc = "load", !.i = 0, !.j = 0, !.a_picks = <<>>,
                          !.b_picks = <<>>, !.c_picks = <<>>, !.exc = "",
                          !.lookups = <<>>,
                          !.run = @ + 1, !.base = Len(loop.grade_performance)]
  /\ UNCHANGED <<gradeCall, kellyCall, fetcher, joiner>>

RunsNext == Next \/ Rerun

SpecRuns == Init /\ [][RunsNext]_vars

IsPrefix(s, t) == Len(s) <= Len(t) /\ SubSeq(t, 1, Len(s)) = s

\* Every step leaves the rows written so far where they are, and a header line
\* is written only by the append that creates the file
AppendOnlyStep ==
  /\ IsPrefix(loop.grade_performance, loop'.grade_performance)
  /\ IsPrefix(loop.signal_performance, loop'.signal_performance)
  /\ loop'.grade_headers # loop.grade_headers =>
       loop.grade_headers = 0 /\ loop.grade_performance = <<>> /\ loop'.grade_headers = 1
  /\ loop'.signal_headers # loop.signal_headers =>
       loop.signal_headers = 0 /\ loop.signal_performance = <<>> /\ loop'.signal_headers = 1

\* The rows the second run has written repeat, one for one, the first rows of
\* the first run, and each file has one header line once it has a row
DuplicateRows ==
  /\ loop.grade_headers = (IF loop.grade_performance = <<>> THEN 0 ELSE 1)
  /\ loop.signal_headers = (IF loop.signal_performance = <<>> THEN 0 ELSE 1)
  /\ loop.run = 2 =>
       /\ \A k \in 1..(Len(loop.grade_performance) - loop.base) :
            /\ k <= loop.base
            /\ loop.grade_performance[loop.base + k] = loop.grade_performance[k]
       /\ \A k \in 1..(Len(loop.signal_performance) - 4 * loop.base) :
            loop.signal_performance[4 * loop.base + k] = loop.signal_performance[k]
       /\ loop.pc \in {"done", "raised"} => Len(loop.grade_performance) = 2 * loop.base

\* C13: over any sequence of runs the rows of grade_performance and
\* signal_performance written earlier stay as they are and where they are (the
\* earlier content is a prefix of the later), a header line is written only
\* when the file is created, and a second run over the same picks appends the
\* same rows a second time.
C13_AppendOnlyUndeduplicated == []DuplicateRows /\ [][AppendOnlyStep]_vars

\* the second run is over: it appended the first run's two ledger rows and
\* eight signal rows again, below the one header line
C13_Witness ==
  /\ loop.run = 2
  /\ loop.pc = "done"
  /\ loop.base = 2
  /\ Len(loop.grade_performance) = 4
  /\ loop.grade_performance[3] = loop.grade_performance[1]
  /\ SubSeq(loop.signal_performance, 9, 16) = SubSeq(loop.signal_performance, 1, 8)
  /\ loop.grade_headers = 1

\* A step that writes a tracker file is the update_tracker_units call, taken
\* when every pick of the batch is graded and has its log_bet row, and the
\* stakes it writes are those of the unit map filled from all the graded picks
PatchAfterScoring ==
  loop'.stakes # loop.stakes =>
    /\ loop.pc = "patch"
    /\ loop.i = Len(loop.picks) + 1
    /\ Len(GradedPicks(loop)) = Len(loop.picks)
    /\ Len(loop.grade_performance) - loop.base = Len(loop.picks)
    /\ \A k \in 1..Len(loop.picks) :
         /\ GradedPicks(loop)[k].grade_score \in 0..4
         /\ loop.grade_performance[loop.base + k].bet = GradedPicks(loop)[k].pick_desc
    /\ \A r \in 1..Len(loop.picks) :
         loop'.stakes[r] =
           PatchedStake(loop, UnitMapValues(GradedPicks(loop), 1), r)

\* C14: in every run no tracker file is written before every pick of the batch
\* has been graded and its stake computed and logged, and the key-to-stake map
\* of the patch is built from all the graded picks of the batch.
C14_TwoPhase == [][PatchAfterScoring]_vars

\* the patch has been made in a run over two picks, both graded and logged
C14_Witness ==
  /\ loop.pc = "done"
  /\ Len(loop.picks) = 2
  /\ Len(loop.grade_performance) = 2
  /\ \A r \in 1..2 : loop.stakes[r] # <<>>

\* The graded picks whose key is the key of source row r: the rows of the unit
\* map for the row's file that the row matches
KeyInUnitMap(l, r) ==
  \E k \in 1..Len(GradedPicks(l)) :
    /\ GradedPicks(l)[k].model_type = l.picks[r].model_type
    /\ GradedPicks(l)[k].key = l.picks[r].key

\* C15 as stated: a step leaves the number and the order of the source rows and
\* every field of every row but the stake as they are, and changes a row's
\* stake only in update_tracker_units and only when the row's key is in the
\* key-to-stake map.
C15_PatchChangesOnlyStakes ==
  [][ /\ loop'.picks = loop.picks
      /\ Len(loop'.stakes) = Len(loop.stakes)
      /\ \A r \in 1..Len(loop.stakes) :
           loop'.stakes[r] # loop.stakes[r] => loop.pc = "patch" /\ KeyInUnitMap(loop, r) ]_vars

\* The bundle has a current spread: the field is there and is a number
HasCurrentSpread(signals) == PresentNumeric(LineMovementOf(signals).spread_current)

\* C16 as stated: the signals of every pick are looked up under the full names
\* and, only when that bundle has no current spread, once more under the short
\* names; no exception ends the run, and when the run is over every loaded
\* pick has been graded and has its grade_performance row.
C16_RetryOnceAndNeverAbort ==
  /\ \A i \in 1..Len(loop.lookups) :
       loop.lookups[i] = IF HasCurrentSpread(loop.picks[i].signals) THEN <<"full">>
                         ELSE <<"full", "short">>
  /\ loop.pc # "raised"
  /\ loop.pc = "done" =>
       /\ Len(GradedPicks(loop)) = Len(loop.picks)
       /\ Len(loop.grade_performance) - loop.base = Len(loop.picks)

----------------------------------------------------------------------------
(* signal_fetcher.SignalFetcher.  The payload of the live-odds API is a     *)
(* JSON value; a JSON value here is a record whose t says what it is: a     *)
(* "dict", a "list", "null", or "absent" for a key its dict does not have;  *)
(* numbers and strings are the values of the grading section.  Team names   *)
(* are tuples of characters, as the tags are.                               *)

JName(chars) == [t |-> "str", chars |-> chars]
JNameNull == [t |-> "null", chars |-> <<>>]

\* str.split(): the words of s, from its i-th character on, cur being the
\* word begun
RECURSIVE WordsFrom(_, _, _)
WordsFrom(s, i, cur) ==
  IF i > Len(s) THEN (IF cur = <<>> THEN <<>> ELSE <<cur>>)
  ELSE IF s[i] = " "
       THEN (IF cur = <<>> THEN <<>> ELSE <<cur>>) \o WordsFrom(s, i + 1, <<>>)
       ELSE WordsFrom(s, i + 1, Append(cur, s[i]))

Split(s) == WordsFrom(s, 1, <<>>)

\* Lines 87-88 (home) and 89-90 (away): [exc, hit].  `x in None` raises.
TeamMatches(team, game_team) ==
  IF game_team.t # "str" THEN [exc |-> "TypeError", hit |-> FALSE]
  ELSE [exc |-> "",
        hit |-> \/ Contains(game_team.chars, team)
                \/ Contains(team, game_team.chars)
                \/ \E k \in 1..Len(Split(team)) : Contains(game_team.chars, Split(team)[k])]

\* Lines 113-119: the exception the pinnacle lookups raise, "" if none.
\* pinnacle.get of a non-dict raises, and so does .get('open') of a spread or
\* total that is no dict.
PinnacleExc(pinnacle) ==
  IF pinnacle.t = "absent" THEN ""
  ELSE IF pinnacle.t # "dict" THEN "AttributeError"
  ELSE IF pinnacle.spread \in {"absent", "dict"} /\ pinnacle.total \in {"absent", "dict"}
       THEN "" ELSE "AttributeError"

\* side_data.get(name, 0) > 50, lines 130-134: [exc, over]
Over50(x) ==
  IF x.t = "absent" THEN [exc |-> "", over |-> FALSE]
  ELSE IF x.t = "num" THEN [exc |-> "", over |-> x.n > 50 * x.d]
  ELSE [exc |-> "TypeError", over |-> FALSE]

TagPublic == <<"P", "u", "b", "l", "i", "c", "R", "e", "s", "p", "e", "c", "t">>
TagWhale == <<"W", "h", "a", "l", "e", "R", "e", "s", "p", "e", "c", "t">>

\* Lines 130-135 for one side of a market: [exc, tags]
SideTags(market, side) ==
  IF side.data.t # "dict" THEN [exc |-> "AttributeError", tags |-> <<>>]
  ELSE LET pr == Over50(side.data.publicRespect)
           vb == Over50(side.data.vegasBacked)
           wr == Over50(side.data.whaleRespect)
           head == market \o <<":">> \o side.side \o <<" ">>
       IN  IF pr.exc # "" THEN [exc |-> pr.exc, tags |-> <<>>]
           ELSE IF vb.exc # "" THEN [exc |-> vb.exc, tags |-> <<>>]
           ELSE IF wr.exc # "" THEN [exc |-> wr.exc, tags |-> <<>>]
           ELSE [exc |-> "",
                 tags |-> (IF pr.over THEN <<head \o TagPublic>> ELSE <<>>)
                          \o (IF vb.over THEN <<head \o TagVegas>> ELSE <<>>)
                          \o (IF wr.over THEN <<head \o TagWhale>> ELSE <<>>)]

\* Lines 129-135 for one market, from its k-th side on: [exc, tags]
RECURSIVE MarketTags(_, _, _)
MarketTags(market, sides, k) ==
  IF k > Len(sides) THEN [exc |-> "", tags |-> <<>>]
  ELSE LET first == SideTags(market, sides[k])
           rest == MarketTags(market, sides, k + 1)
       IN  IF first.exc # "" THEN first
           ELSE IF rest.exc # "" THEN rest
           ELSE [exc |-> "", tags |-> first.tags \o rest.tags]

\* Lines 128-129: signal_data.get(market, {}) and its .items(): [exc, tags]
MarketOf(name, market_data) ==
  IF market_data.t = "absent" THEN [exc |-> "", tags |-> <<>>]
  ELSE IF market_data.t # "dict" THEN [exc |-> "AttributeError", tags |-> <<>>]
  ELSE MarketTags(name, market_data.sides, 1)

\* Lines 122-137: the sharp_list built from the game's signals: [exc, tags]
SharpList(signal_data) ==
  IF signal_data.t = "absent" THEN [exc |-> "", tags |-> <<>>]
  ELSE IF signal_data.t # "dict" THEN [exc |-> "AttributeError", tags |-> <<>>]
  ELSE LET sp == MarketOf(<<"s", "p", "r", "e", "a", "d">>, signal_data.spread)
           to == MarketOf(<<"t", "o", "t", "a", "l">>, signal_data.total)
           ml == MarketOf(<<"m", "l">>, signal_data.ml)
       IN  IF sp.exc # "" THEN sp
           ELSE IF to.exc # "" THEN to
           ELSE IF ml.exc # "" THEN ml
           ELSE [exc |-> "", tags |-> sp.tags \o to.tags \o ml.tags]

\* Lines 140-151: [exc, val].  The percentages are whole numbers here; a
\* percentage that is a string cannot be subtracted.
Divergence(spread_bet, spread_money) ==
  IF Get(spread_bet).t = "none" \/ Get(spread_money).t = "none"
  THEN [exc |-> "", val |-> PyNone]
  ELSE IF spread_bet.t # "num" \/ spread_money.t # "num"
       THEN [exc |-> "TypeError", val |-> PyNone]
       ELSE LET diff == IF spread_money.n >= spread_bet.n
                        THEN spread_money.n - spread_bet.n
                        ELSE spread_bet.n - spread_money.n
            IN  [exc |-> "",
                 val |-> IF diff > 15
                         THEN IF spread_money.n > spread_bet.n THEN PyStr("Sharp Action")
                              ELSE PyStr("Public Heavy")
                         ELSE PyStr("Aligned")]

\* Lines 92-151 for the game that matched: [exc, ret]
GameSignals(game) ==
  LET sharp == SharpList(game.signals)
      div == Divergence(game.public_spread_bet_pct, game.public_spread_money_pct)
      exc == IF PinnacleExc(game.pinnacle) # "" THEN PinnacleExc(game.pinnacle)
             ELSE IF sharp.exc # "" THEN sharp.exc ELSE div.exc
  IN  IF exc # "" THEN [exc |-> exc, ret |-> <<>>]
      ELSE [exc |-> "",
            ret |-> Signals(LineMovement(Get(game.current_spread), Get(game.opening_spread)),
                            div.val, SharpSignals(sharp.tags))]

\* Lines 82-153: the loop over the games from the k-th on: [exc, ret]
RECURSIVE ScanGames(_, _, _, _)
ScanGames(games, k, home_team, away_team) ==
  IF k > Len(games) THEN [exc |-> "", ret |-> DefaultBundle]
  ELSE IF games[k].t # "dict" THEN [exc |-> "AttributeError", ret |-> <<>>]
  ELSE LET home == TeamMatches(home_team, games[k].home_team) IN
       IF home.exc # "" THEN [exc |-> home.exc, ret |-> <<>>]
       ELSE IF ~home.hit THEN ScanGames(games, k + 1, home_team, away_team)
       ELSE LET away == TeamMatches(away_team, games[k].away_team) IN
            IF away.exc # "" THEN [exc |-> away.exc, ret |-> <<>>]
            ELSE IF ~away.hit THEN ScanGames(games, k + 1, home_team, away_team)
            ELSE GameSignals(games[k])

\* bool(self.insider_data): None, {} and [] are falsy
HasData(insider_data) == insider_data.t \in {"dict", "list"} /\ ~insider_data.empty

\* fetch_betting_insider, lines 25-35: the insider_data after the call.  Every
\* exception of the request, the status check and the JSON parse is caught and
\* leaves insider_data as it was.
fetch_betting_insider(insider_data, response) ==
  IF response.t = "error" THEN insider_data ELSE response

\* get_game_signals, lines 63-155, on the insider_data it works with (after the
\* fetch of lines 74-75, if one was made): [exc, ret]
get_game_signals(insider_data, home_team, away_team) ==
  IF ~HasData(insider_data) THEN [exc |-> "", ret |-> DefaultBundle]
  ELSE IF insider_data.t # "dict" THEN [exc |-> "AttributeError", ret |-> <<>>]
  ELSE IF insider_data.games.t = "absent" THEN [exc |-> "", ret |-> DefaultBundle]
  ELSE IF insider_data.games.t # "list" THEN [exc |-> "TypeError", ret |-> <<>>]
  ELSE ScanGames(insider_data.games.items, 1, home_team, away_team)

----------------------------------------------------------------------------
(* One SignalFetcher asked for the signals of one game as run_decision_loop *)
(* asks: with the full names and, when the bundle has no truthy current     *)
(* spread, again with the last words.                                       *)

\* What the request of fetch_betting_insider ends with: an exception (network,
\* HTTP status, JSON parse) or a parsed payload
FetchError == [t |-> "error", empty |-> TRUE, games |-> [t |-> "absent", items |-> <<>>]]
NoData == [t |-> "none", empty |-> TRUE, games |-> [t |-> "absent", items |-> <<>>]]
PayloadEmpty == [t |-> "dict", empty |-> TRUE, games |-> [t |-> "absent", items |-> <<>>]]
PayloadList == [t |-> "list", empty |-> FALSE, games |-> [t |-> "absent", items |-> <<>>]]
PayloadGamesNull == [t |-> "dict", empty |-> FALSE, games |-> [t |-> "null", items |-> <<>>]]
Payload(games) == [t |-> "dict", empty |-> FALSE, games |-> [t |-> "list", items |-> games]]

JSide(t, publicRespect, vegasBacked, whaleRespect) ==
  [t |-> t, publicRespect |-> publicRespect, vegasBacked |-> vegasBacked,
   whaleRespect |-> whaleRespect]

JMarket(t, sides) == [t |-> t, sides |-> sides]

\* A game's signals with at most a spread market
JSignals(t, spread) ==
  [t |-> t, spread |-> spread, total |-> JMarket("absent", <<>>),
   ml |-> JMarket("absent", <<>>)]

JPinnacle(t, spread) == [t |-> t, spread |-> spread, total |-> "absent"]

Game(home_team, away_team, pct, spreads, pinnacle, signals) ==
  [t |-> "dict", home_team |-> home_team, away_team |-> away_team,
   public_spread_bet_pct |-> pct[1], public_spread_money_pct |-> pct[2],
   current_spread |-> spreads[1], opening_spread |-> spreads[2],
   pinnacle |-> pinnacle, signals |-> signals]

NameLakers == <<"L", "a", "k", "e", "r", "s">>
NameCeltics == <<"C", "e", "l", "t", "i", "c", "s">>
NameHeat == <<"H", "e", "a", "t">>
NameKnicks == <<"K", "n", "i", "c", "k", "s">>

\* An entry of games that is a string
NonDictGame ==
  [Game(JNameNull, JNameNull, <<PyAbsent, PyAbsent>>, <<PyAbsent, PyAbsent>>,
        JPinnacle("absent", "absent"), JSignals("absent", JMarket("absent", <<>>)))
   EXCEPT !.t = "str"]

HeatGame ==
  Game(JName(NameHeat), JName(NameKnicks), <<PyNum(70, 1), PyNum(40, 1)>>,
       <<PyNum(2, 1), PyNum(1, 1)>>, JPinnacle("absent", "absent"),
       JSignals("absent", JMarket("absent", <<>>)))

\* A game the insider lists under its cities, with sharp money on the
\* spread and the given spreads
CityGame(spreads) ==
  Game(JName(<<"L", "A">>), JName(<<"B", "o", "s", "t", "o", "n">>),
       <<PyNum(40, 1), PyNum(70, 1)>>, spreads, JPinnacle("absent", "absent"),
       JSignals("absent", JMarket("absent", <<>>)))

HomeSide(data) == JMarket("dict", <<[side |-> <<"h", "o", "m", "e">>, data |-> data]>>)

PctInputs ==
  { <<PyAbsent, PyAbsent>>, <<PyNum(40, 1), PyNum(70, 1)>>, <<PyNum(70, 1), PyNum(40, 1)>>,
    <<PyNum(50, 1), PyNum(55, 1)>>, <<PyNumStr(40, 1), PyNumStr(70, 1)>>,
    <<PyNone, PyNum(70, 1)>> }

GameSpreadInputs ==
  { <<PyNum(-7, 2), PyNum(-3, 1)>>, <<PyNone, PyNone>>, <<PyNum(0, 1), PyNum(-1, 1)>> }

PinnacleInputs ==
  { JPinnacle("absent", "absent"), JPinnacle("null", "absent"), JPinnacle("dict", "null"),
    JPinnacle("dict", "dict") }

GameSignalsInputs ==
  { JSignals("absent", JMarket("absent", <<>>)),
    JSignals("null", JMarket("absent", <<>>)),
    JSignals("dict", JMarket("null", <<>>)),
    JSignals("dict", HomeSide(JSide("null", PyAbsent, PyAbsent, PyAbsent))),
    JSignals("dict", HomeSide(JSide("dict", PyAbsent, PyNum(80, 1), PyAbsent))),
    JSignals("dict", HomeSide(JSide("dict", PyAbsent, PyNumStr(80, 1), PyAbsent))),
    JSignals("dict", HomeSide(JSide("dict", PyNone, PyNum(80, 1), PyAbsent))) }

GameInputs ==
  { Game(home_team, JName(NameCeltics), pct, spreads, pinnacle, signals) :
      home_team \in {JName(NameLakers), JNameNull}, pct \in PctInputs,
      spreads \in GameSpreadInputs, pinnacle \in PinnacleInputs,
      signals \in GameSignalsInputs }

ResponseInputs ==
  {FetchError, PayloadEmpty, PayloadList, PayloadGamesNull, Payload(<<>>)}
  \cup {Payload(<<g>>) : g \in GameInputs \cup {NonDictGame}}
  \cup {Payload(<<HeatGame, g>>) :
          g \in {h \in GameInputs : h.pinnacle.t = "absent" /\ h.signals.t = "absent"}}
  \cup {Payload(<<CityGame(spreads)>>) : spreads \in GameSpreadInputs}

\* The home and away names of a pick's game, in full and their last words
QueryInputs ==
  { [home |-> <<"L", "A", " ", "L", "a", "k", "e", "r", "s">>, away |-> <<"B", "o", "s", "t", "o", "n", " ", "C", "e", "l", "t", "i", "c", "s">>, home_short |-> NameLakers,
     away_short |-> NameCeltics],
    [home |-> <<"M", "i", "a", "m", "i", " ", "H", "e", "a", "t">>, away |-> <<"N", "e", "w", " ", "Y", "o", "r", "k", " ", "K", "n", "i", "c", "k", "s">>, home_short |-> NameHeat,
     away_short |-> NameKnicks] }

FetcherInit ==
  /\ gradeCall = GradeIdle
  /\ kellyCall = KellyIdle
  /\ loop = LoopIdle
  /\ joiner = JoinerIdle
  /\ \E response \in ResponseInputs, q \in QueryInputs :
       fetcher = [FetcherIdle EXCEPT !.pc = "call", !.response = response,
                                     !.insider_data = NoData, !.home_team = q.home,
                                     !.away_team = q.away]

\* One get_game_signals call of the fetcher f with the given names: the fetch
\* of lines 74-75 when there is no data yet, then the lookup.  next is where
\* run_decision_loop goes when the bundle has no truthy current spread.
GetGameSignals(f, home_team, away_team, next) ==
  LET data == IF HasData(f.insider_data) THEN f.insider_data
              ELSE fetch_betting_insider(f.insider_data, f.response)
      r == get_game_signals(data, home_team, away_team)
  IN  [f EXCEPT !.insider_data = data,
                !.fetches = IF HasData(f.insider_data) THEN @ ELSE @ + 1,
                !.home_team = home_team, !.away_team = away_team,
                !.exc = r.exc,
                !.ret = r.ret,
                !.pc = IF r.exc # "" THEN "raised"
                       ELSE IF Truthy(Get(LineMovementOf(r.ret).spread_current))
                            THEN "done" ELSE next]

\* Line 347: fetcher.get_game_signals(home, away)
GetGameSignalsCall ==
  /\ fetcher.pc = "call"
  /\ fetcher' = GetGameSignals(fetcher, fetcher.home_team, fetcher.away_team, "retry")
  /\ UNCHANGED <<gradeCall, kellyCall, loop, joiner>>

\* Lines 348-350: fetcher.get_game_signals(home_short, away_short)
GetGameSignalsRetry ==
  /\ fetcher.pc = "retry"
  /\ \E q \in QueryInputs :
       /\ q.home = fetcher.home_team
       /\ fetcher' = GetGameSignals(fetcher, q.home_short, q.away_short, "done")
  /\ UNCHANGED <<gradeCall, kellyCall, loop, joiner>>

FetcherNext == GetGameSignalsCall \/ GetGameSignalsRetry

SpecFetcher == FetcherInit /\ [][FetcherNext]_vars

\* C17 as stated: no get_game_signals call raises, and a call whose fetch
\* failed returns the bundle with empty sub-structures.
C17_GetGameSignalsNeverRaises ==
  /\ fetcher.exc = ""
  /\ fetcher.pc # "raised"
  /\ fetcher.pc \in {"retry", "done"} /\ fetcher.response = FetchError =>
       fetcher.ret = DefaultBundle

----------------------------------------------------------------------------
(* analyze_signals.py.  The cells of the result columns are text the code   *)
(* strips, lowers and compares, so they are tuples of characters; the       *)
(* other cells are compared whole.                                          *)

TextPending == <<"p", "e", "n", "d", "i", "n", "g">>
TextWin == <<"w", "i", "n">>
TextLoss == <<"l", "o", "s", "s">>

\* str.strip() of a cell of blanks and letters
RECURSIVE Strip(_)
Strip(s) ==
  IF s = <<>> THEN s
  ELSE IF Head(s) = " " THEN Strip(Tail(s))
  ELSE IF s[Len(s)] = " " THEN Strip(SubSeq(s, 1, Len(s) - 1))
  ELSE s

\* The key with the date left out
JoinKeyWithoutDate(row) == <<row.game, row.bet>>

\* Lines 22 and 37: the key of a row of either file
JoinKey(row) == <<row.date, row.game, row.bet>>

\* load_grade_results (lines 17-24) followed by grade_results.get(key,
\* 'pending') (line 41): the stripped and lowered result of the last row of
\* grade_performance with the key, 'pending' when no row has it
GradeResult(grade_rows, key) ==
  LET same == {k \in 1..Len(grade_rows) : JoinKey(grade_rows[k]) = key}
  IN  IF same = {} THEN TextPending
      ELSE Lower(Strip(grade_rows[CHOOSE k \in same : \A m \in same : m <= k].result))

\* Lines 39-41: the result a signal row is taken to have
ResolvedResult(grade_rows, row) ==
  IF row.bet_result = <<>> \/ row.bet_result = TextPending
  THEN GradeResult(grade_rows, JoinKey(row))
  ELSE row.bet_result

\* Line 42: the rows that are counted, by their place in signal_performance
CountedRows(grade_rows, signal_rows) ==
  {i \in 1..Len(signal_rows) :
     ResolvedResult(grade_rows, signal_rows[i]) \in {TextWin, TextLoss}}

\* Line 57 with the wins counted against all the rows seen
WinRateOfAllRows(wins, total) ==
  FDiv(FMul(FromInt(100), FromInt(wins)), FromInt(total + 1))

\* Line 57: 100.0 * wins / total if total else 0
WinRate(wins, total) ==
  IF total = 0 THEN FZero ELSE FDiv(FMul(FromInt(100), FromInt(wins)), FromInt(total))

\* Lines 45-49 and 55-57 for the group of the counted row i: what is printed
GroupOf(grade_rows, signal_rows, counted, i) ==
  LET rows == {k \in counted :
                 /\ signal_rows[k].signal_name = signal_rows[i].signal_name
                 /\ signal_rows[k].signal_direction = signal_rows[i].signal_direction}
      wins == Cardinality({k \in rows : ResolvedResult(grade_rows, signal_rows[k]) = TextWin})
  IN  [signal_name |-> signal_rows[i].signal_name,
       signal_direction |-> signal_rows[i].signal_direction,
       first_name |-> CHOOSE k \in counted :
                        /\ signal_rows[k].signal_name = signal_rows[i].signal_name
                        /\ \A m \in counted :
                             signal_rows[m].signal_name = signal_rows[i].signal_name => k <= m,
       first |-> CHOOSE k \in rows : \A m \in rows : k <= m,
       wins |-> wins, total |-> Cardinality(rows),
       winrate |-> WinRate(wins, Cardinality(rows))]

\* The groups in the order of the two loops of lines 52-54: by the first
\* counted row of the signal name, then by the first counted row of the group
RECURSIVE InPrintOrder(_)
InPrintOrder(groups) ==
  IF groups = {} THEN <<>>
  ELSE LET g == CHOOSE x \in groups :
                  \A y \in groups :
                    \/ x.first_name < y.first_name
                    \/ x.first_name = y.first_name /\ x.first <= y.first
       IN  <<g>> \o InPrintOrder(groups \ {g})

\* analyze_signals(), lines 26-58: the summary it prints, group by group
analyze_signals(grade_rows, signal_rows) ==
  Bind(CountedRows(grade_rows, signal_rows), LAMBDA counted :
    InPrintOrder({GroupOf(grade_rows, signal_rows, counted, i) : i \in counted}))

----------------------------------------------------------------------------
(* The two ledger files as a run of the pipeline left them, the results     *)
(* that are filled in afterwards from outside, and analyze_signals.         *)

\* The text of a result cell the pipeline wrote
CsvCell(x) == IF x = "pending" THEN TextPending ELSE <<>>

\* The columns analyze_signals reads of a grade_performance row
ReadGradeRow(row) ==
  [date |-> row.date, game |-> row.game, bet |-> row.bet, result |-> CsvCell(row.result)]

\* The columns analyze_signals reads of a signal_performance row
ReadSignalRow(row) ==
  [date |-> row.date, game |-> row.game, bet |-> row.bet, signal_name |-> row.signal_name,
   signal_direction |-> row.signal_direction, bet_result |-> CsvCell(row.bet_result)]

\* The analysis log_bet is called with for a pick
GradedAnalysis(pick) == grade_pick(run_pre_bet_analysis(pick, FetchSignals(pick))).analysis

PickOf(pick_desc) == CHOOSE p \in PickInputs : p.pick_desc = pick_desc

\* A pick of the file of the day after
NextDay(pick) == [pick EXCEPT !.date = PyStr("2026-01-16")]

\* The picks logged: one, one logged by two runs, one logged on two days, and
\* three
LedgerInputs ==
  { <<PickOf("LAL -3.5")>>,
    <<PickOf("LAL -3.5"), PickOf("LAL -3.5")>>,
    <<PickOf("LAL -3.5"), NextDay(PickOf("LAL -3.5"))>>,
    <<PickOf("LAL -3.5"), PickOf("Brunson assists over 6.5"),
      PickOf("Tatum points over 27.5")>> }

RECURSIVE SignalRowsOfAll(_, _)
SignalRowsOfAll(picks, k) ==
  IF k > Len(picks) THEN <<>>
  ELSE [m \in 1..4 |-> ReadSignalRow(SignalRows(GradedAnalysis(picks[k]))[m])]
       \o SignalRowsOfAll(picks, k + 1)

\* The results a settlement writes into grade_performance
GradeResultInputs == {TextWin, TextLoss, <<"W", "i", "n", " ">>}

\* The results written into a bet_result cell of signal_performance
SignalResultInputs == {TextWin, <<>>, <<"W", "i", "n">>, <<"p", "u", "s", "h">>}

\* The most bet_result cells of signal_performance that are filled in
MaxSignalEdits == 1

JoinerInit ==
  /\ gradeCall = GradeIdle
  /\ kellyCall = KellyIdle
  /\ loop = LoopIdle
  /\ fetcher = FetcherIdle
  /\ \E picks \in LedgerInputs :
       joiner = [JoinerIdle EXCEPT
                   !.pc = "open",
                   !.grade_rows = [k \in 1..Len(picks) |->
                                     ReadGradeRow(LedgerRow(GradedAnalysis(picks[k]), FZero))],
                   !.signal_rows = SignalRowsOfAll(picks, 1)]

\* The result of a grade_performance row is filled in
SettleGrade ==
  /\ joiner.pc = "open"
  /\ \E k \in 1..Len(joiner.grade_rows), result \in GradeResultInputs :
       /\ joiner.grade_rows[k].result = TextPending
       /\ joiner' = [joiner EXCEPT !.grade_rows[k].result = result]
  /\ UNCHANGED <<gradeCall, kellyCall, loop, fetcher>>

\* The bet_result of a signal_performance row is filled in
SettleSignal ==
  /\ joiner.pc = "open"
  /\ joiner.edits < MaxSignalEdits
  /\ \E k \in 1..Len(joiner.signal_rows), result \in SignalResultInputs :
       /\ joiner.signal_rows[k].bet_result = TextPending
       /\ joiner' = [joiner EXCEPT !.signal_rows[k].bet_result = result, !.edits = @ + 1]
  /\ UNCHANGED <<gradeCall, kellyCall, loop, fetcher>>

\* analyze_signals() is run
AnalyzeSignals ==
  /\ joiner.pc = "open"
  /\ joiner' = [joiner EXCEPT !.pc = "done",
                              !.report = analyze_signals(joiner.grade_rows,
                                                         joiner.signal_rows)]
  /\ UNCHANGED <<gradeCall, kellyCall, loop, fetcher>>

JoinerNext == SettleGrade \/ SettleSignal \/ AnalyzeSignals

SpecJoiner == JoinerInit /\ [][JoinerNext]_vars

\* The result C18 gives a signal row: its own bet_result when that is win or
\* loss, the result looked up in grade_performance for every other own value
ClaimedResult(grade_rows, row) ==
  IF row.bet_result \in {TextWin, TextLoss} THEN row.bet_result
  ELSE GradeResult(grade_rows, JoinKey(row))

\* The rows of signal_performance in the group of row i
GroupRows(signal_rows, i) ==
  {k \in 1..Len(signal_rows) :
     /\ signal_rows[k].signal_name = signal_rows[i].signal_name
     /\ signal_rows[k].signal_direction = signal_rows[i].signal_direction}

\* The entries of the report for the group of row i
ReportOf(report, signal_rows, i) ==
  {n \in 1..Len(report) :
     /\ report[n].signal_name = signal_rows[i].signal_name
     /\ report[n].signal_direction = signal_rows[i].signal_direction}

\* C18 as stated: in the report of analyze_signals every group's total is the
\* number of its rows whose result, taken from the row when it is win or loss
\* and looked up by (date, game, bet) in grade_performance for every other own
\* value, is win or loss, and its wins the number of those that are win.
C18_LookupUnlessOwnWinOrLoss ==
  joiner.pc = "done" =>
    \A i \in 1..Len(joiner.signal_rows) :
      LET settled == {k \in GroupRows(joiner.signal_rows, i) :
                        ClaimedResult(joiner.grade_rows, joiner.signal_rows[k])
                          \in {TextWin, TextLoss}}
          wins == {k \in settled :
                     ClaimedResult(joiner.grade_rows, joiner.signal_rows[k]) = TextWin}
          found == ReportOf(joiner.report, joiner.signal_rows, i)
      IN  IF settled = {} THEN found = {}
          ELSE /\ Cardinality(found) = 1
               /\ \A n \in found : /\ joiner.report[n].total = Cardinality(settled)
                                   /\ joiner.report[n].wins = Cardinality(wins)

\* C19: the report of analyze_signals has one entry for every group with a row
\* whose resolved result is win or loss and none for any other group; the
\* entry's total is the number of those rows, its wins the number resolved to
\* win, 0 <= wins <= total, and its win rate the double nearest to
\* 100 * wins / total.  With the three logged picks settled win, loss, win the
\* sharp_money rates are 50.0 for Sharp Action and 100.0 for Public Heavy.
C19_WinRateOverSettledRows ==
  joiner.pc = "done" =>
    /\ \A i \in 1..Len(joiner.signal_rows) :
         LET settled == {k \in GroupRows(joiner.signal_rows, i) :
                           ResolvedResult(joiner.grade_rows, joiner.signal_rows[k])
                             \in {TextWin, TextLoss}}
             wins == {k \in settled :
                        ResolvedResult(joiner.grade_rows, joiner.signal_rows[k]) = TextWin}
             found == ReportOf(joiner.report, joiner.signal_rows, i)
         IN  IF settled = {} THEN found = {}
             ELSE /\ Cardinality(found) = 1
                  /\ \A n \in found :
                       /\ joiner.report[n].total = Cardinality(settled)
                       /\ joiner.report[n].wins = Cardinality(wins)
                       /\ joiner.report[n].wins \in 0..joiner.report[n].total
                       /\ joiner.report[n].winrate =
                            FromRatio(100 * Cardinality(wins), Cardinality(settled))
    /\ \A n \in 1..Len(joiner.report) : joiner.report[n].total >= 1
    /\ ( /\ Len(joiner.grade_rows) = 3
         /\ joiner.edits = 0
         /\ joiner.grade_rows[1].result = TextWin
         /\ joiner.grade_rows[2].result = TextLoss
         /\ joiner.grade_rows[3].result = TextWin )
       => \A n \in 1..Len(joiner.report) :
            joiner.report[n].signal_name = "sharp_money" =>
              /\ joiner.report[n].signal_direction \in {"Sharp Action", "Public Heavy"}
              /\ joiner.report[n].winrate =
                   IF joiner.report[n].signal_direction = "Sharp Action"
                   THEN FromInt(50) ELSE FromInt(100)

\* the three picks are settled win, loss, win and the report has the two
\* sharp_money groups, Sharp Action with one win of two
C19_Witness ==
  /\ joiner.pc = "done"
  /\ Len(joiner.grade_rows) = 3
  /\ joiner.edits = 0
  /\ joiner.grade_rows[1].result = TextWin
  /\ joiner.grade_rows[2].result = TextLoss
  /\ joiner.grade_rows[3].result = TextWin
  /\ \E n, m \in 1..Len(joiner.report) :
       /\ joiner.report[n].signal_name = "sharp_money"
       /\ joiner.report[n].signal_direction = "Sharp Action"
       /\ joiner.report[n].wins = 1
       /\ joiner.report[n].total = 2
       /\ joiner.report[m].signal_name = "sharp_money"
       /\ joiner.report[m].signal_direction = "Public Heavy"
       /\ joiner.report[m].winrate = FromInt(100)

\* The (date, game, bet) of a row, column by column
Triple(row) == <<row.date, row.game, row.bet>>

\* The result of the last row of grade_performance with the (date, game, bet)
\* of a signal row, stripped and lowered
SettlementOf(grade_rows, row) ==
  LET same == {k \in 1..Len(grade_rows) : Triple(grade_rows[k]) = Triple(row)}
  IN  Lower(Strip(grade_rows[CHOOSE k \in same : \A m \in same : m <= k].result))

\* C20: the four signal rows written with a ledger row carry its date, game
\* and bet, the key analyze_signals computes of either row is that triple, and
\* a signal row that is not filled in is resolved to the settlement of the
\* ledger rows with its own (date, game, bet), the last of them when several.
C20_JoinKeyIdentical ==
  /\ Len(joiner.signal_rows) = 4 * Len(joiner.grade_rows)
  /\ \A k \in 1..Len(joiner.grade_rows) : \A m \in 1..4 :
       LET g == joiner.grade_rows[k]
           s == joiner.signal_rows[4 * (k - 1) + m]
       IN  /\ Triple(s) = Triple(g)
           /\ JoinKey(g) = Triple(g)
           /\ JoinKey(s) = Triple(g)
           /\ s.bet_result \in {<<>>, TextPending} =>
                ResolvedResult(joiner.grade_rows, s) = SettlementOf(joiner.grade_rows, s)

\* the same bet logged on two days, the later one settled: only its four
\* signal rows are counted
C20_Witness ==
  /\ joiner.pc = "done"
  /\ Len(joiner.grade_rows) = 2
  /\ joiner.grade_rows[1].date # joiner.grade_rows[2].date
  /\ joiner.grade_rows[1].bet = joiner.grade_rows[2].bet
  /\ joiner.grade_rows[1].result = TextPending
  /\ joiner.grade_rows[2].result = TextWin
  /\ joiner.edits = 0
  /\ Len(joiner.report) = 4
  /\ \A n \in 1..4 : joiner.report[n].total = 1 /\ joiner.report[n].wins = 1

----------------------------------------------------------------------------
(* The pipeline with writes that fail.  open() and write() raise OSError   *)
(* when the disk or the file refuses; nothing in decision_loop.py catches  *)
(* it, so the run ends there.                                              *)

\* The files log_bet writes, in the order it opens them (lines 274, 279, 281)
LedgerFiles == <<"bet_log", "grade_performance", "signal_performance">>

\* log_bet(analysis, units) when the open() of the file-th file raises: the
\* files before it have their rows appended, the file and those after it are
\* as they were
LogBetFailing(l, analysis, units, file) ==
  Bind(LogBet(l, analysis, units), LAMBDA logged :
    [l EXCEPT !.bet_log = IF file > 1 THEN logged.bet_log ELSE @,
              !.grade_headers = IF file > 2 THEN logged.grade_headers ELSE @,
              !.grade_performance = IF file > 2 THEN logged.grade_performance ELSE @,
              !.pc = "raised",
              !.exc = "OSError"])

\* The pick the logging loops are at, and the units log_bet is called with
PickBeingLogged(l) ==
  Bind(CASE l.pc = "logA" -> l.a_picks[l.j]
         [] l.pc = "logB" -> l.b_picks[l.j]
         [] OTHER -> [l.c_picks[l.j] EXCEPT !.paper_bet = TRUE], LAMBDA analysis :
    [analysis |-> analysis,
     stake |-> IF l.pc = "logC" THEN [exc |-> "", units |-> FZero]
               ELSE StakeOf(IF l.pc = "logA" THEN "A" ELSE "B", analysis)])

\* Lines 390, 406 and 412: log_bet is reached and one of its three opens fails
LogBetFails ==
  /\ loop.pc \in {"logA", "logB", "logC"}
  /\ \E file \in 1..3 :
       loop' = Bind(PickBeingLogged(loop), LAMBDA p :
                 IF p.stake.exc # "" THEN Raise(loop, p.stake.exc)
                 ELSE LogBetFailing(loop, p.analysis, p.stake.units, file))
  /\ UNCHANGED <<gradeCall, kellyCall, fetcher, joiner>>

\* The places in picks of the rows of a tracker file
RowsOfFile(l, model_type) ==
  {r \in 1..Len(l.picks) : l.picks[r].model_type = model_type}

\* The rows left in the two tracker files when the rewrite of the file of
\* model_type fails after written of its rows went out.  open(..., 'w') (lines
\* 489 and 520) has emptied the file by then.  The player props file is
\* rewritten first (lines 463-492); the exception leaves update_tracker_units,
\* so a failure there leaves the team file as it was.
RowsAfterFailedRewrite(l, model_type, written) ==
  {r \in 1..Len(l.picks) :
     IF l.picks[r].model_type = model_type
     THEN Cardinality({q \in RowsOfFile(l, model_type) : q <= r}) <= written
     ELSE TRUE}

\* The elements of seq at the places in keep, in their order
RECURSIVE Kept(_, _, _)
Kept(seq, keep, r) ==
  IF r > Len(seq) THEN <<>>
  ELSE (IF r \in keep THEN <<seq[r]>> ELSE <<>>) \o Kept(seq, keep, r + 1)

\* Line 415: update_tracker_units, and writer.writerows (line 492 or 523)
\* fails part of the way
RewriteFails ==
  /\ loop.pc = "patch"
  /\ \E model_type \in {"Player Props", "Team Model"} :
       /\ RowsOfFile(loop, model_type) # {}
       /\ \E written \in 0..(Cardinality(RowsOfFile(loop, model_type)) - 1) :
            loop' =
              Bind(UnitMapValues(GradedPicks(loop), 1), LAMBDA values :
                IF UnitMapExc(values) # "" THEN Raise(loop, UnitMapExc(values))
                ELSE
                  Bind(RowsAfterFailedRewrite(loop, model_type, written), LAMBDA keep :
                  Bind([r \in 1..Len(loop.picks) |->
                          IF loop.picks[r].model_type = "Player Props"
                             \/ model_type = "Team Model"
                          THEN RewrittenRow(loop.picks[r])
                          ELSE loop.picks[r]], LAMBDA rows :
                  Bind([r \in 1..Len(loop.picks) |->
                          IF loop.picks[r].model_type = "Player Props"
                             \/ model_type = "Team Model"
                          THEN PatchedStake(loop, values, r)
                          ELSE loop.stakes[r]], LAMBDA stakes :
                    [loop EXCEPT !.pc = "raised",
                                 !.exc = "OSError",
                                 !.picks = Kept(rows, keep, 1),
                                 !.stakes = Kept(stakes, keep, 1)]))))
  /\ UNCHANGED <<gradeCall, kellyCall, fetcher, joiner>>

FaultsNext == Next \/ LogBetFails \/ RewriteFails

\* The batches of load_model_picks whose rows all carry a numeric edge and the
\* price -110 or +150
FaultBatches ==
  {b \in Batches :
     \A r \in 1..Len(b) : /\ b[r].edge.t = "numstr"
                          /\ b[r].odds \in {PyNumStr(-110, 1), PyNumStr(150, 1)}}

FaultsInit ==
  /\ gradeCall = GradeIdle
  /\ kellyCall = KellyIdle
  /\ fetcher = FetcherIdle
  /\ joiner = JoinerIdle
  /\ \E picks \in FaultBatches :
       loop = [LoopIdle EXCEPT !.pc = "load", !.picks = picks,
                               !.stakes = [r \in 1..Len(picks) |-> <<>>]]

SpecFaults == FaultsInit /\ [][FaultsNext]_vars

\* C21 as stated: when a write of log_bet or of update_tracker_units fails,
\* every row the three ledger files had is still there and unchanged, and so
\* is every row of the two tracker files (as it was or as rewritten).
C21_FailedWriteKeepsRows ==
  [][(loop'.pc = "raised" /\ loop'.exc = "OSError") =>
       /\ IsPrefix(loop.bet_log, loop'.bet_log)
       /\ IsPrefix(loop.grade_performance, loop'.grade_performance)
       /\ IsPrefix(loop.signal_performance, loop'.signal_performance)
       /\ Len(loop'.picks) = Len(loop.picks)
       /\ \A r \in 1..Len(loop.picks) :
            loop'.picks[r] \in {loop.picks[r], RewrittenRow(loop.picks[r])}]_vars

\* The graded analysis a grade_performance row was written for: log_bet is
\* called for the A picks, then the B picks, then the C picks (one run)
LoggedPick(l, k) == GradedPicks(l)[k]

\* A pick whose edge is no number has the reason "Model edge unknown" and no
\* point for check 1, a pick whose current or opening spread is text that is
\* no number has "Line movement unclear" and no point for check 2, and the
\* score is the number of checks passed
ParseErrorsScoreUnknown ==
  \A k \in 1..Len(GradedPicks(loop)) :
    LET x == GradedPicks(loop)[k]
        lm == LineMovementOf(x.signals)
    IN  /\ FloatExc(x.edge) # "" =>
             /\ x.grade_reasoning[1] = Reason("unknown", "Model edge unknown")
             /\ x.grade_score <= 3
        /\ ( /\ Truthy(Get(lm.spread_current))
             /\ Truthy(Get(lm.spread_open))
             /\ (FloatExc(lm.spread_current) # "" \/ FloatExc(lm.spread_open) # "") )
           => /\ x.grade_reasoning[2] = Reason("unknown", "Line movement unclear")
              /\ x.grade_score <= 3
        /\ x.grade_score = PassCount(x.grade_reasoning)

\* A logged pick whose odds int() does not parse is staked at the default
\* price 1.91, and with an edge that is no number as well at its grade's floor
ParseErrorsStakeDefaults ==
  \A k \in 1..Len(loop.grade_performance) :
    LET x == LoggedPick(loop, k)
        row == loop.grade_performance[k]
    IN  (x.grade \in {"A", "B"} /\ IntExc(x.odds) # "") =>
          /\ FloatExc(x.edge) # "" => row.units = StakeFloor(x.grade, FZero)
          /\ Bind(FromRatio(191, 100), LAMBDA price :
               Bind(IF x.grade = "A" THEN FromRatio(55, 100) ELSE FromRatio(54, 100),
                    LAMBDA fallback :
               Bind(ModelProb(x.edge, price, fallback), LAMBDA prob :
               Bind(grade_adjusted_units(x.grade, prob, price, BANKROLL, UNIT_SIZE,
                                         DefaultMaxBet, KELLY_FRACTION),
                    LAMBDA units : row.units = StakeFloor(x.grade, units)))))

\* A step that ends the run with an exception is at a pick whose edge and odds
\* are numbers
RaisedAtNumericPick ==
  loop'.pc = "raised" =>
    /\ loop.pc \in {"logA", "logB", "patch"}
    /\ loop.pc \in {"logA", "logB"} =>
         /\ IntExc(PickBeingLogged(loop).analysis.odds) = ""
         /\ FloatExc(PickBeingLogged(loop).analysis.edge) = ""
    /\ loop.pc = "patch" =>
         \E k \in 1..Len(GradedPicks(loop)) :
           /\ UnitMapValue(GradedPicks(loop)[k]).exc # ""
           /\ FloatExc(GradedPicks(loop)[k].odds) = ""
           /\ FloatExc(GradedPicks(loop)[k].edge) = ""

ParseErrorsState ==
  /\ ParseErrorsScoreUnknown
  /\ ParseErrorsStakeDefaults
  /\ loop.pc = "done" => Len(loop.grade_performance) = Len(loop.picks)

\* C22: a pick whose edge is no number gets the reason "Model edge unknown"
\* and no point for check 1; a pick whose current or opening spread is text
\* that is no number gets "Line movement unclear" and no point for check 2.  A
\* logged pick whose odds are no number is staked at the default price 1.91,
\* and with an edge that is no number at the default probability (which
\* leaves the floor of its grade).  No step that ends the run with an
\* exception is at a pick whose edge or odds are no number, and a run that is
\* not ended by one logs every pick.
C22_ParseErrorsFailOpen == []ParseErrorsState /\ [][RaisedAtNumericPick]_vars

\* a run logged a B pick whose edge and odds are no numbers at 0.25 units and
\* then a pick whose edge and current spread are text, and went on to its end
C22_Witness ==
  /\ loop.pc = "done"
  /\ Len(loop.grade_performance) = 2
  /\ \E k, m \in 1..2 :
       /\ LoggedPick(loop, k).grade = "B"
       /\ FloatExc(LoggedPick(loop, k).edge) # ""
       /\ IntExc(LoggedPick(loop, k).odds) # ""
       /\ loop.grade_performance[k].units = FromRatio(1, 4)
       /\ LoggedPick(loop, m).grade_reasoning[2] = Reason("unknown", "Line movement unclear")
       /\ LoggedPick(loop, m).grade_reasoning[1] = Reason("unknown", "Model edge unknown")

\* The rows of the tracker files with the key of a graded pick
SourceRowsOf(l, x) ==
  {r \in 1..Len(l.picks) : l.picks[r].model_type = x.model_type /\ l.picks[r].key = x.key}

\* C23 as stated: once update_tracker_units has rewritten the tracker files,
\* the stake in the source row of every A or B pick equals the units of the
\* pick's grade_performance row.
C23_PatchedStakeIsLedgerUnits ==
  loop.pc = "done" =>
    \A k \in 1..Len(loop.grade_performance) :
      LoggedPick(loop, k).grade \in {"A", "B"} =>
        \A r \in SourceRowsOf(loop, LoggedPick(loop, k)) :
          loop.stakes[r] = <<loop.grade_performance[k].units>>

----------------------------------------------------------------------------
(* The pipeline over batches chosen for the stakes: one pick with its edge, *)
(* its price and its game's signals from a grid, or two picks that have    *)
(* the same key in their file.                                              *)

\* A matched game with both spreads and the public on the pick's side
PublicBundle ==
  Signals(LineMovement(PyNum(-7, 2), PyNum(-3, 1)), PyStr("Public Heavy"),
          SharpSignals(<<TagVegas>>))

\* edge_pct / edge cells: below the 3% of check 1, above it, large, and so
\* large that the model probability passes 1
StakeEdgeInputs == {PyNumStr(1, 1), PyNumStr(4, 1), PyNumStr(30, 1), PyNumStr(60, 1)}

\* odds cells: American prices, a decimal price, text and 0
StakeOddsInputs ==
  {PyNumStr(-110, 1), PyNumStr(150, 1), PyNumStr(191, 100), PyStr("EVEN"), PyNumStr(0, 1)}

\* What the lookups of a pick's game return: all four checks can pass, the
\* sharp-money check cannot, or no game matched
StakeSignalsInputs == {SharpBundle, PublicBundle, DefaultBundle}

StakePickInputs ==
  {Pick(PickDate, "Team Model", "BOS @ LAL", "LAL -3.5", 1, edge, odds, signals, signals) :
     edge \in StakeEdgeInputs, odds \in StakeOddsInputs, signals \in StakeSignalsInputs}

\* Two rows of the player props file with the same player, market and line:
\* the over at edge 5 and the under at edge 1
PropOver ==
  Pick(PickDate, "Player Props", "BOS @ LAL", "Tatum points over 27.5", 1,
       PyNumStr(5, 1), PyNumStr(-110, 1), SharpBundle, SharpBundle)
PropUnder ==
  Pick(PickDate, "Player Props", "BOS @ LAL", "Tatum points under 27.5", 1,
       PyNumStr(1, 1), PyNumStr(-110, 1), SharpBundle, SharpBundle)

\* Two rows of the team model file with the same game and pick, from two
\* books: edge 5 at -110 and edge 1 at -120
TeamBookOne ==
  Pick(PickDate, "Team Model", "BOS @ LAL", "LAL -3.5", 1,
       PyNumStr(5, 1), PyNumStr(-110, 1), SharpBundle, SharpBundle)
TeamBookTwo ==
  Pick(PickDate, "Team Model", "BOS @ LAL", "LAL -3.5", 1,
       PyNumStr(1, 1), PyNumStr(-120, 1), SharpBundle, SharpBundle)

\* Batches of two rows of one file that have the same key
SharedKeyBatches ==
  { <<PropOver, PropUnder>>, <<PropUnder, PropOver>>,
    <<TeamBookOne, TeamBookTwo>>, <<TeamBookTwo, TeamBookOne>> }

StakeBatches == {<<pick>> : pick \in StakePickInputs} \cup SharedKeyBatches

StakesInit ==
  /\ gradeCall = GradeIdle
  /\ kellyCall = KellyIdle
  /\ fetcher = FetcherIdle
  /\ joiner = JoinerIdle
  /\ \E picks \in StakeBatches :
       loop = [LoopIdle EXCEPT !.pc = "load", !.picks = picks,
                               !.stakes = [r \in 1..Len(picks) |-> <<>>]]

SpecStakes == StakesInit /\ [][Next]_vars

C25_StakeOfTheRowsOwnPick ==
  loop.pc = "done" =>
    \A r \in 1..Len(loop.picks) :
      loop.stakes[r] = <<UnitMapValue(GradedAnalysis(loop.picks[r])).val>>

\* The rows of the group of signal row i that are not filled in and whose
\* (date, game, bet) has a grade_performance row settled as win or loss
PendingWithSettlement(grade_rows, signal_rows, i) ==
  {k \in GroupRows(signal_rows, i) :
     /\ signal_rows[k].bet_result \in {<<>>, TextPending}
     /\ \E g \in 1..Len(grade_rows) :
          /\ Triple(grade_rows[g]) = Triple(signal_rows[k])
          /\ Lower(Strip(grade_rows[g].result)) \in {TextWin, TextLoss}}

\* C26 as stated: in the report of analyze_signals every signal row that is
\* not filled in is counted in its group when some grade_performance row with
\* its (date, game, bet) is settled as win or loss, whether or not a later row
\* of grade_performance with that key is still pending.
C26_CountedWhenAnyDuplicateSettled ==
  joiner.pc = "done" =>
    \A i \in 1..Len(joiner.signal_rows) :
      LET must == PendingWithSettlement(joiner.grade_rows, joiner.signal_rows, i) IN
        must # {} =>
          \E n \in ReportOf(joiner.report, joiner.signal_rows, i) :
            joiner.report[n].total >= Cardinality(must)

\* C27 as stated: the line_movement row written for a logged pick has the
\* direction Unknown exactly when check 2 of grade_pick gave the pick no point,
\* and one of the three movement labels exactly when the check passed.
C27_DirectionFromTheSameCheck ==
  \A k \in 1..Len(loop.grade_performance) :
    4 * k <= Len(loop.signal_performance) =>
      LET row == loop.signal_performance[4 * (k - 1) + 2]
          passed == LoggedPick(loop, k).grade_reasoning[2].mark = "pass"
      IN  /\ row.signal_name = "line_movement"
          /\ (row.signal_direction = "Unknown") <=> ~passed
          /\ (row.signal_direction \in {"Moved toward", "Moved against", "No movement"})
               <=> passed

\* A step of the logging loops or of update_tracker_units that returns
StakeStepReturns ==
  loop.pc \in {"logA", "logB", "patch"} => loop'.pc # "raised"

\* C28 as stated: no stake computation raises, in the logging loops or in
\* update_tracker_units, whatever the odds of the pick are.
C28_StakeComputationNeverRaises == [][StakeStepReturns]_vars

\* The retry returns a bundle with a divergence when the first lookup did
RetryKeepsDivergence ==
  (fetcher.pc = "retry" /\ fetcher'.exc = "") =>
    (fetcher.ret.bet_vs_money_divergence # PyNone =>
       fetcher'.ret.bet_vs_money_divergence # PyNone)

\* C29 as stated: when the lookup under the full names returned a bundle with
\* a divergence but without a current spread, the bundle the lookup under the
\* short names returns, which is the one graded, has a divergence as well.
C29_RetryNeverLosesSignalData == [][RetryKeepsDivergence]_vars

\* C30: a pick graded on the default bundle (no game matched: empty line
\* movement, no divergence, no sharp tags) has a score of at most 2 and grade
\* C whatever its edge, its grade_performance row has 0 units whatever its
\* odds, and its source row is patched with stake 0.
C30_NoSignalsNoStake ==
  /\ \A k \in 1..Len(GradedPicks(loop)) :
       GradedPicks(loop)[k].signals = DefaultBundle =>
         /\ GradedPicks(loop)[k].grade_score <= 2
         /\ GradedPicks(loop)[k].grade = "C"
  /\ \A k \in 1..Len(loop.grade_performance) :
       LoggedPick(loop, k).signals = DefaultBundle =>
         /\ loop.grade_performance[k].grade = "C"
         /\ loop.grade_performance[k].units = FZero
         /\ loop.pc = "done" =>
              \A r \in SourceRowsOf(loop, LoggedPick(loop, k)) : loop.stakes[r] = <<FZero>>

\* a pick with edge 60 and a price of 0 was graded on the default bundle with
\* score 2, logged with 0 units and patched
C30_Witness ==
  /\ loop.pc = "done"
  /\ Len(loop.grade_performance) = 1
  /\ LoggedPick(loop, 1).signals = DefaultBundle
  /\ LoggedPick(loop, 1).edge = PyNumStr(60, 1)
  /\ LoggedPick(loop, 1).odds = PyNumStr(0, 1)
  /\ LoggedPick(loop, 1).grade_score = 2
  /\ loop.grade_performance[1].units = FZero
  /\ loop.stakes = << <<FZero>> >>
====
